---- MODULE Spec2Model ----
(***************************************************************************)
(* The generic hash table of collections (table.h): a fixed store of       *)
(* TABLE_CAPACITY bucket heads behind a TableHeader, singly linked chains   *)
(* of TableNode, FNV-1a bucket selection, set / get / exists / delete and   *)
(* the (cx, cy) iteration cursor.                                          *)
(*                                                                         *)
(* A chain is the sequence of the nodes reached from the bucket head by    *)
(* following next: chain[1] is the head.  A node is the record of the      *)
(* key_size key bytes and value_size value bytes copied into it.  A        *)
(* pointer to a node's value is the pair (bucket, position in chain).      *)
(***************************************************************************)
EXTENDS Integers, Sequences, FiniteSets, TLC

TABLE_CAPACITY == 100

\* Bound on the cursor's bucket index: next is not followed further once cy
\* has run this far (cy grows by one on every call made after the end).
MaxCy == 100

\* Caller key buffers (two bytes each; the table reads the first key_size).
\* With key_size = 2:  <<95,116>>, <<151,52>> -> bucket 0;  <<95,125>>,
\* <<102,62>> -> bucket 99.  With key_size = 1:  95, 151 -> bucket 0;
\* 102 -> bucket 99;  <<95,116>> and <<95,125>> are then the same key.
KeyBufs == { <<95, 116>>, <<151, 52>>, <<95, 125>>, <<102, 62>> }

\* Caller value buffers.
ValueBufs == { <<42>>, <<7>> }

\* The sizes create is called with.
KeySizes == {1, 2}
ValueSizes == {1}

Buckets == 0 .. (TABLE_CAPACITY - 1)

VARIABLES
    buckets,     \* the bucket store: buckets[i] is the chain of bucket i
    key_size,    \* TableHeader.key_size
    value_size,  \* TableHeader.value_size
    cy,          \* TableHeader.cy, the cursor's bucket index
    cx,          \* TableHeader.cx, the cursor's position in the chain
    freed,       \* the blocks passed to free(), in the order of the calls
    status,      \* "running", "exited" (exit(EXIT_FAILURE)), "killed"
                 \* (fault on an invalid access), "corrupt" (heap corrupted),
                 \* "destroyed" (the table was released by destroy)
    call,        \* the last call made: operation, arguments, branch taken
    ret,         \* what the last call returned
    visited,     \* what next returned since the last rewind (or create),
                 \* in calls made with the cursor inside the bucket store
    clean        \* no set or delete was called since the last rewind

\* The other containers of the library, one variable for each object; each
\* is NoObject in the runs that do not use it.
VARIABLES
    ht,          \* the string-keyed hash table (hash-table header)
    ll,          \* the linked list (list.h)
    ar,          \* the growable array (ArrayHeader and its items)
    fa,          \* the arrays of array.h: the one filtered and the result
    strs,        \* the two String values strfind is called with
    view,        \* the StringView the conversions are called with
    pt,          \* the table without delete and cursor
    cp           \* the caller's key and value buffers, and the nodes' pointers

NoObject == << >>

others == <<ht, ll, ar, fa, strs, view, pt, cp>>

\* Every container but the named one is absent.
NoOthersBut(v) ==
    /\ IF v = "ht" THEN TRUE ELSE ht = NoObject
    /\ IF v = "ll" THEN TRUE ELSE ll = NoObject
    /\ IF v = "ar" THEN TRUE ELSE ar = NoObject
    /\ IF v = "fa" THEN TRUE ELSE fa = NoObject
    /\ IF v = "strs" THEN TRUE ELSE strs = NoObject
    /\ IF v = "view" THEN TRUE ELSE view = NoObject
    /\ IF v = "pt" THEN TRUE ELSE pt = NoObject
    /\ IF v = "cp" THEN TRUE ELSE cp = NoObject

NoOthers == NoOthersBut("table")

\* The generic table, in the runs of another container: never created.
NoTable ==
    /\ buckets = NoObject
    /\ key_size = 0
    /\ value_size = 0
    /\ cy = 0
    /\ cx = 0
    /\ freed = << >>
    /\ visited = << >>
    /\ clean = TRUE

\* The fields of the generic table, and with them the record of the pass.
table_fields == <<buckets, key_size, value_size, cy, cx, freed>>
table_vars == <<table_fields, visited, clean>>

\* What a call on one container leaves alone.
not_ht == <<table_vars, ll, ar, fa, strs, view, pt, cp>>
others_but_ll == <<ht, ar, fa, strs, view, pt, cp>>
others_but_ht == <<ll, ar, fa, strs, view, pt, cp>>
not_ll == <<table_fields, ht, ar, fa, strs, view, pt, cp>>
not_ar == <<table_vars, ht, ll, fa, strs, view, pt, cp>>
not_fa == <<table_vars, ht, ll, ar, strs, view, pt, cp>>
not_strs == <<table_vars, ht, ll, ar, fa, view, pt, cp>>
not_view == <<table_vars, ht, ll, ar, fa, strs, pt, cp>>
not_pt == <<table_vars, ht, ll, ar, fa, strs, view, cp>>
not_cp == <<cy, cx, freed, visited, clean, ht, ll, ar, fa, strs, view, pt>>

vars == <<buckets, key_size, value_size, cy, cx, freed, status, call, ret,
          visited, clean, others>>

-----------------------------------------------------------------------------
(* 64-bit unsigned arithmetic on eight little-endian byte limbs.            *)

RECURSIVE XorBits(_, _, _)
XorBits(a, b, n) ==
    IF n = 0 THEN 0
    ELSE (((a % 2) + (b % 2)) % 2) + 2 * XorBits(a \div 2, b \div 2, n - 1)

\* hash ^= bytes[i]: the byte is xored into the low limb.
U64XorByte(h, byte) == [h EXCEPT ![1] = XorBits(h[1], byte, 8)]

\* hash *= prime, modulo 2^64.  prime = 1099511628211 = 2^40 + 435, so the
\* product is h * 435 plus h shifted left by five limbs.
RECURSIVE MulPrimeLimbs(_, _, _)
MulPrimeLimbs(h, i, carry) ==
    IF i > 8 THEN <<>>
    ELSE LET p == h[i] * 435 + (IF i > 5 THEN h[i - 5] ELSE 0) + carry
         IN  <<(p % 256)>> \o MulPrimeLimbs(h, i + 1, p \div 256)

U64MulPrime(h) == MulPrimeLimbs(h, 1, 0)

RECURSIVE U64ModFrom(_, _, _, _)
U64ModFrom(h, i, m, r) ==
    IF i = 0 THEN r ELSE U64ModFrom(h, i - 1, m, ((r * 256) + h[i]) % m)

U64Mod(h, m) == U64ModFrom(h, 8, m, 0)

\* 1469598103934665603, the offset basis written in the source.
HashBasis == <<131, 3, 157, 115, 176, 15, 101, 20>>

RECURSIVE HashLoop(_, _, _, _)
HashLoop(bytes, len, i, hash) ==
    IF i > len THEN hash
    ELSE HashLoop(bytes, len, i + 1, U64MulPrime(U64XorByte(hash, bytes[i])))

\* Faulty variant: the loop runs over the whole buffer, not len bytes.
HashWholeBuffer(data, len) == HashLoop(data, Len(data), 1, HashBasis)

__hash(data, len) == HashLoop(data, len, 1, HashBasis)

\* hash % TABLE_CAPACITY for every key buffer and key size of the model,
\* computed once.
IndexOf ==
    [ks \in KeySizes, key \in KeyBufs |->
        U64Mod(__hash(key, ks), TABLE_CAPACITY)]

\* Faulty variant: the hash runs over the whole key buffer instead of its
\* first key_size bytes.
IndexWholeBuffer(ks, key) == IndexOf[Len(key), key]

__table_get_index__(ks, key) == IndexOf[ks, key]

-----------------------------------------------------------------------------
(* Chains.                                                                  *)

\* Faulty variant: the comparison runs over the whole key buffer.
KeyEqWholeBuffer(node, ks, key) == node.key = key

\* memcmp(current->key, key, key_size) == 0
KeyEq(node, ks, key) == node.key = SubSeq(key, 1, ks)

\* The scan  while(current != NULL) { if(memcmp(...) == 0) break; current =
\* current->next; }  : the position of the first node with the key, 0 when
\* the scan ends with current == NULL.
RECURSIVE ScanFrom(_, _, _, _)
ScanFrom(chain, ks, key, p) ==
    IF p > Len(chain) THEN 0
    ELSE IF KeyEq(chain[p], ks, key) THEN p
    ELSE ScanFrom(chain, ks, key, p + 1)

Scan(chain, ks, key) == ScanFrom(chain, ks, key, 1)

\* Whether the scan of the key's bucket finds the key.
Present(b, ks, key) == Scan(b[__table_get_index__(ks, key)], ks, key) # 0

__table_node_create__(ks, vs, key, value) ==
    [key |-> SubSeq(key, 1, ks), value |-> SubSeq(value, 1, vs)]

-----------------------------------------------------------------------------
(* Return values.                                                           *)

Ret(kind, b, pos) == [kind |-> kind, b |-> b, pos |-> pos]
Void     == Ret("void", 0, 0)      \* a void function returned
NoReturn == Ret("noreturn", 0, 0)  \* the process ended inside the call
Null     == Ret("null", 0, 0)      \* NULL, the end sentinel of next
Wild     == Ret("wild", 0, 0)      \* a pointer read from outside the store
True     == Ret("true", 0, 0)
False    == Ret("false", 0, 0)
Ref(b, pos) == Ret("ref", b, pos)  \* &node->value of buckets[b][pos]

NoBuf == << >>
Call(op, key, val, hit) == [op |-> op, key |-> key, val |-> val, hit |-> hit]

-----------------------------------------------------------------------------
(* __table_create: calloc'ed header and bucket store.                       *)

\* Faulty variant: header->cx is never assigned, so the cursor starts at
\* whatever chain position the block held.
InitCursorStale ==
    /\ key_size \in KeySizes
    /\ value_size \in ValueSizes
    /\ buckets = [i \in Buckets |-> << >>]
    /\ cx \in {0, 1}
    /\ cy = 0
    /\ freed = << >>
    /\ status = "running"
    /\ call = Call("create", NoBuf, NoBuf, FALSE)
    /\ ret = Void
    /\ visited = << >>
    /\ clean = TRUE
    /\ NoOthers

Init ==
    /\ key_size \in KeySizes
    /\ value_size \in ValueSizes
    /\ buckets = [i \in Buckets |-> << >>]
    /\ cx = 0
    /\ cy = 0
    /\ freed = << >>
    /\ status = "running"
    /\ call = Call("create", NoBuf, NoBuf, FALSE)
    /\ ret = Void
    /\ visited = << >>
    /\ clean = TRUE
    /\ NoOthers

-----------------------------------------------------------------------------
(* __table_set                                                              *)

\* Faulty variants of __table_set.
\* The value is written to the chain head instead of the node found.
SetOverwritesHead(b, ks, vs, key, value) ==
    LET index == __table_get_index__(ks, key)
        p     == Scan(b[index], ks, key)
    IN  IF p = 0
        THEN [b EXCEPT ![index] =
                  <<__table_node_create__(ks, vs, key, value)>> \o @]
        ELSE [b EXCEPT ![index][1].value = SubSeq(value, 1, vs)]

\* The node found is unlinked and linked again at the head.
SetMovesToFront(b, ks, vs, key, value) ==
    LET index == __table_get_index__(ks, key)
        p     == Scan(b[index], ks, key)
        chain == b[index]
    IN  IF p = 0
        THEN [b EXCEPT ![index] =
                  <<__table_node_create__(ks, vs, key, value)>> \o @]
        ELSE [b EXCEPT ![index] =
                  <<[chain[p] EXCEPT !.value = SubSeq(value, 1, vs)]>>
                  \o SubSeq(chain, 1, p - 1)
                  \o SubSeq(chain, p + 1, Len(chain))]

\* The chain is not scanned: every set links a new node.
SetAlwaysPrepends(b, ks, vs, key, value) ==
    [b EXCEPT ![__table_get_index__(ks, key)] =
         <<__table_node_create__(ks, vs, key, value)>> \o @]

\* A new node is linked at the tail of the chain instead of the head.
SetAppends(b, ks, vs, key, value) ==
    LET index == __table_get_index__(ks, key)
        p     == Scan(b[index], ks, key)
    IN  IF p = 0
        THEN [b EXCEPT ![index] =
                  @ \o <<__table_node_create__(ks, vs, key, value)>>]
        ELSE [b EXCEPT ![index][p].value = SubSeq(value, 1, vs)]

\* When a new node makes a chain two long, the bucket store is replaced by
\* one of twice the size.
SetResizes(b, ks, vs, key, value) ==
    LET index == __table_get_index__(ks, key)
        p     == Scan(b[index], ks, key)
        added == [b EXCEPT ![index] =
                     <<__table_node_create__(ks, vs, key, value)>> \o @]
    IN  IF p # 0
        THEN [b EXCEPT ![index][p].value = SubSeq(value, 1, vs)]
        ELSE IF b[index] = << >> THEN added
        ELSE [i \in 0 .. (2 * TABLE_CAPACITY - 1) |->
                 IF i \in DOMAIN b THEN added[i] ELSE << >>]

__table_set(b, ks, vs, key, value) ==
    LET index == __table_get_index__(ks, key)
        p     == Scan(b[index], ks, key)
    IN  IF p = 0
        THEN [b EXCEPT ![index] =
                  <<__table_node_create__(ks, vs, key, value)>> \o @]
        ELSE [b EXCEPT ![index][p].value = SubSeq(value, 1, vs)]

\* Faulty variant: a set rewinds the cursor.
SetRewinds ==
    /\ status = "running"
    /\ \E key \in KeyBufs, value \in ValueBufs :
          /\ buckets' = __table_set(buckets, key_size, value_size, key, value)
          /\ call' = Call("set", key, value,
                 Present(buckets, key_size, key))
    /\ ret' = Void
    /\ visited' = << >>
    /\ clean' = FALSE
    /\ cx' = 0
    /\ cy' = 0
    /\ UNCHANGED <<key_size, value_size, freed, status>>
    /\ UNCHANGED others

table_set ==
    /\ status = "running"
    /\ \E key \in KeyBufs, value \in ValueBufs :
          /\ buckets' = __table_set(buckets, key_size, value_size, key, value)
          /\ call' = Call("set", key, value,
                 Present(buckets, key_size, key))
    /\ ret' = Void
    /\ visited' = << >>
    /\ clean' = FALSE
    /\ UNCHANGED <<key_size, value_size, cy, cx, freed, status>>
    /\ UNCHANGED others

-----------------------------------------------------------------------------
(* __table_get, __table_exists                                              *)

\* The pointer __table_get returns, or NoReturn where it calls exit.
\* Faulty variant: a missing key yields NULL instead of ending the process.
GetReturnsNull(b, ks, key) ==
    LET index == __table_get_index__(ks, key)
        p     == Scan(b[index], ks, key)
    IN  IF p = 0 THEN Null ELSE Ref(index, p)

__table_get(b, ks, key) ==
    LET index == __table_get_index__(ks, key)
        p     == Scan(b[index], ks, key)
    IN  IF b[index] = << >> THEN NoReturn
        ELSE IF p = 0 THEN NoReturn
        ELSE Ref(index, p)

table_get ==
    /\ status = "running"
    /\ \E key \in KeyBufs :
          LET r == __table_get(buckets, key_size, key)
          IN  /\ ret' = r
              /\ status' = IF r = NoReturn THEN "exited" ELSE "running"
              /\ call' = Call("get", key, NoBuf, r # NoReturn)
    /\ UNCHANGED <<buckets, key_size, value_size, cy, cx, freed, visited,
                   clean>>
    /\ UNCHANGED others

\* return __table_get(table, key) != NULL;
__table_exists(b, ks, key) ==
    LET r == __table_get(b, ks, key)
    IN  IF r = NoReturn THEN NoReturn
        ELSE IF r # Null THEN True ELSE False

table_exists ==
    /\ status = "running"
    /\ \E key \in KeyBufs :
          LET r == __table_exists(buckets, key_size, key)
          IN  /\ ret' = r
              /\ status' = IF r = NoReturn THEN "exited" ELSE "running"
              /\ call' = Call("exists", key, NoBuf, r # NoReturn)
    /\ UNCHANGED <<buckets, key_size, value_size, cy, cx, freed, visited,
                   clean>>
    /\ UNCHANGED others

-----------------------------------------------------------------------------
(* __table_delete                                                           *)

\* prev is set to NULL and never assigned again, so when the scan finds the
\* key the statement  prev->next = current->next  stores through a null
\* pointer.  What that does is not defined; a build does one of:
\*   "fault"   the store traps and the process is killed;
\*   "elided"  the compiler treats the path as unreachable: the call returns
\*             having changed nothing;
\*   "stored"  the store lands somewhere and free(current) runs: the node is
\*             freed while its predecessor (or the bucket head) still links
\*             to it.  The heap is corrupt; the run is not followed further.
DeleteOutcomes == {"fault", "elided", "stored"}

\* Faulty variant: the  if(!current) return;  is missing, so the store
\* through prev is reached for an absent key too.
DeleteWithoutAbsentCheck(b, fr, ks, key, outcome) ==
    [buckets |-> b, freed |-> fr, status |-> "killed", ret |-> NoReturn]

__table_delete(b, fr, ks, key, outcome) ==
    LET index == __table_get_index__(ks, key)
        p     == Scan(b[index], ks, key)
    IN  IF p = 0
        THEN [buckets |-> b, freed |-> fr, status |-> "running", ret |-> Void]
        ELSE IF outcome = "fault"
        THEN [buckets |-> b, freed |-> fr, status |-> "killed",
              ret |-> NoReturn]
        ELSE IF outcome = "elided"
        THEN [buckets |-> b, freed |-> fr, status |-> "running", ret |-> Void]
        ELSE [buckets |-> b, freed |-> Append(fr, <<index, p>>),
              status |-> "corrupt", ret |-> Void]

table_delete ==
    /\ status = "running"
    /\ \E key \in KeyBufs :
       \E outcome \in (IF Present(buckets, key_size, key)
                       THEN DeleteOutcomes ELSE {"elided"}) :
          LET r == __table_delete(buckets, freed, key_size, key, outcome)
          IN  /\ buckets' = r.buckets
              /\ freed' = r.freed
              /\ status' = r.status
              /\ ret' = r.ret
              /\ call' = Call("delete", key, NoBuf,
                     Present(buckets, key_size, key))
    /\ visited' = << >>
    /\ clean' = FALSE
    /\ UNCHANGED <<key_size, value_size, cy, cx>>
    /\ UNCHANGED others

-----------------------------------------------------------------------------
(* __table_rewind, __table_next                                             *)

\* Faulty variant: only the chain position is reset, cy stays.
RewindKeepsCy ==
    /\ status = "running"
    /\ cx' = 0
    /\ cy' = cy
    /\ ret' = Void
    /\ call' = Call("rewind", NoBuf, NoBuf, FALSE)
    /\ visited' = << >>
    /\ clean' = TRUE
    /\ UNCHANGED <<buckets, key_size, value_size, freed, status>>
    /\ UNCHANGED others

table_rewind ==
    /\ status = "running"
    /\ cx' = 0
    /\ cy' = 0
    /\ ret' = Void
    /\ call' = Call("rewind", NoBuf, NoBuf, FALSE)
    /\ visited' = << >>
    /\ clean' = TRUE
    /\ UNCHANGED <<buckets, key_size, value_size, freed, status>>
    /\ UNCHANGED others

\* Bound on the cursor's chain position at which next is still followed.
MaxCx == 1

\* A node pointer of __table_next: 0 is NULL, p >= 1 is the node at position
\* p of the chain of the bucket being walked, WildPtr is whatever a read
\* beyond the end of the bucket store produced.
WildPtr == 0 - 1

\* What a read of ((TableNode **)table)[i] with i >= TABLE_CAPACITY yields:
\* zero bytes or some other bit pattern.  What dereferencing such a pattern
\* (current->next, current->value) does: the access traps, or it loads
\* another arbitrary pattern.
OobReads == {"null", "wild"}
WildDerefs == {"fault", "wild"}

\* The outcomes that can differ: a read inside the store yields the head
\* it holds, and nothing is dereferenced unless some read was wild.
OobChoices(i) == IF i \in Buckets THEN {"null"} ELSE OobReads
DerefChoices(reads) == IF "wild" \in reads THEN WildDerefs ELSE {"wild"}

\* ((TableNode **)table)[i]
BucketHead(b, i, oob) ==
    IF i \in Buckets THEN (IF b[i] = << >> THEN 0 ELSE 1)
    ELSE IF oob = "null" THEN 0 ELSE WildPtr

\* current->next, for a node of the chain
NextOf(chain, cur) == IF cur < Len(chain) THEN cur + 1 ELSE 0

\* while(current != NULL && i < header->cx) { current = current->next; i += 1; }
RECURSIVE Walk(_, _, _, _)
Walk(chain, cur, i, n) ==
    IF cur # 0 /\ i < n THEN Walk(chain, NextOf(chain, cur), i + 1, n)
    ELSE cur

\* while(current == NULL) { if(header->cy >= TABLE_CAPACITY) break;
\*   current = table[header->cy]; if(current != NULL) break; header->cy += 1; }
RECURSIVE SkipEmpty(_, _)
SkipEmpty(b, c) ==
    IF c >= TABLE_CAPACITY THEN c
    ELSE IF b[c] # << >> THEN c
    ELSE SkipEmpty(b, c + 1)

NextResult(r, x, y, st) == [ret |-> r, cx |-> x, cy |-> y, status |-> st]

\* Faulty variant: header->cx is not advanced when a node of the current
\* chain is returned.
NextKeepsCx(b, x, y, oob1, oob2, deref) ==
    LET chain == IF y \in Buckets THEN b[y] ELSE << >>
        c0 == BucketHead(b, y, oob1)
        c1 == IF c0 = WildPtr THEN WildPtr ELSE Walk(chain, c0, 0, x)
        c2 == IF x # 0 \/ y # 0
              THEN (IF c1 = 0 THEN 0
                    ELSE IF c1 = WildPtr THEN WildPtr
                    ELSE NextOf(chain, c1))
              ELSE c1
    IN  IF c0 = WildPtr /\ deref = "fault"
        THEN NextResult(NoReturn, x, y, "killed")
        ELSE IF c2 = WildPtr
        THEN NextResult(Wild, x + 1, y, "running")
        ELSE IF c2 # 0
        THEN NextResult(Ref(y, c2), x, y, "running")
        ELSE
          LET y1 == y + 1
              c3 == BucketHead(b, y1, oob2)
              y2 == IF c3 # 0 THEN y1 ELSE SkipEmpty(b, y1)
              c4 == IF c3 # 0 THEN c3
                    ELSE IF y2 >= TABLE_CAPACITY THEN 0 ELSE 1
          IN  IF c4 = WildPtr
              THEN (IF deref = "fault"
                    THEN NextResult(NoReturn, x, y1, "killed")
                    ELSE NextResult(Wild, 0, y1, "running"))
              ELSE IF c4 # 0
              THEN NextResult(Ref(y2, 1), 0, y2, "running")
              ELSE NextResult(Null, x, y2, "running")

__table_next(b, x, y, oob1, oob2, deref) ==
    LET chain == IF y \in Buckets THEN b[y] ELSE << >>
        c0 == BucketHead(b, y, oob1)
        c1 == IF c0 = WildPtr THEN WildPtr ELSE Walk(chain, c0, 0, x)
        c2 == IF x # 0 \/ y # 0
              THEN (IF c1 = 0 THEN 0
                    ELSE IF c1 = WildPtr THEN WildPtr
                    ELSE NextOf(chain, c1))
              ELSE c1
    IN  IF c0 = WildPtr /\ deref = "fault"
        THEN NextResult(NoReturn, x, y, "killed")
        ELSE IF c2 = WildPtr
        THEN NextResult(Wild, x + 1, y, "running")
        ELSE IF c2 # 0
        THEN NextResult(Ref(y, c2), x + 1, y, "running")
        ELSE
          LET y1 == y + 1
              c3 == BucketHead(b, y1, oob2)
              y2 == IF c3 # 0 THEN y1 ELSE SkipEmpty(b, y1)
              c4 == IF c3 # 0 THEN c3
                    ELSE IF y2 >= TABLE_CAPACITY THEN 0 ELSE 1
          IN  IF c4 = WildPtr
              THEN (IF deref = "fault"
                    THEN NextResult(NoReturn, x, y1, "killed")
                    ELSE NextResult(Wild, 0, y1, "running"))
              ELSE IF c4 # 0
              THEN NextResult(Ref(y2, 1), 0, y2, "running")
              ELSE NextResult(Null, x, y2, "running")

\* The indices at which a call of next that found the cursor at bucket y
\* and left it at bucket y2 read the bucket store: y on entry, and, once
\* header->cy += 1 has run, y + 1 before the bound test and then every
\* index the loop tries.
NextReads(y, y2) ==
    {y} \cup (IF y2 > y
              THEN {y + 1} \cup {i \in Buckets : y < i /\ i <= y2}
              ELSE {})

table_next ==
    /\ status = "running"
    /\ cy <= MaxCy
    /\ cx <= MaxCx
    /\ \E oob1 \in OobChoices(cy), oob2 \in OobChoices(cy + 1) :
       \E deref \in DerefChoices({oob1, oob2}) :
          LET r == __table_next(buckets, cx, cy, oob1, oob2, deref)
          IN  /\ cx' = r.cx
              /\ cy' = r.cy
              /\ ret' = r.ret
              /\ status' = r.status
              /\ call' = Call("next", NoBuf, NoBuf, r.ret.kind = "ref")
              /\ visited' = IF /\ clean
                               /\ cy \in Buckets
                               /\ r.ret.kind \in {"ref", "wild"}
                            THEN Append(visited, r.ret)
                            ELSE visited
    /\ UNCHANGED <<buckets, key_size, value_size, freed, clean>>
    /\ UNCHANGED others

-----------------------------------------------------------------------------
(* __table_destroy                                                          *)

\* A heap block: the node at position p of bucket i is <<i, p>>; TableBlock
\* is the block of __table_create, holding the header and the bucket store.
TableBlock == <<TABLE_CAPACITY, 0>>

\* What destroy does to the heap, in order: the blocks it reads from and
\* the blocks it passes to free().
Read(blk) == [op |-> "read", blk |-> blk]
Free(blk) == [op |-> "free", blk |-> blk]

\* Faulty variant: the node is freed before its next link is read.
DestroyChainFreesFirst(chain, i, cur) ==
    [k \in 1 .. (2 * Len(chain)) |->
        IF k % 2 = 1 THEN Free(<<i, (k + 1) \div 2>>)
        ELSE Read(<<i, k \div 2>>)]

\* while(current != NULL) { next = current->next; free(current);
\*   current = next; }
RECURSIVE DestroyChain(_, _, _)
DestroyChain(chain, i, cur) ==
    IF cur = 0 THEN << >>
    ELSE <<Read(<<i, cur>>), Free(<<i, cur>>)>>
         \o DestroyChain(chain, i, NextOf(chain, cur))

\* for(i = 0; i < TABLE_CAPACITY; ++i) { head = table[i]; ... }
RECURSIVE DestroyBuckets(_, _)
DestroyBuckets(b, i) ==
    IF i >= TABLE_CAPACITY THEN << >>
    ELSE <<Read(TableBlock)>>
         \o DestroyChain(b[i], i, IF b[i] = << >> THEN 0 ELSE 1)
         \o DestroyBuckets(b, i + 1)

__table_destroy(b) == DestroyBuckets(b, 0) \o <<Free(TableBlock)>>

\* The blocks freed by a run of heap operations, in order.
FreedBy(ops) ==
    LET frees == SelectSeq(ops, LAMBDA e : e.op = "free")
    IN  [k \in 1 .. Len(frees) |-> frees[k].blk]

\* buckets is left as it was when destroy was called: what the chains
\* held; freed tells which blocks are released.
table_destroy ==
    /\ status = "running"
    /\ freed' = freed \o FreedBy(__table_destroy(buckets))
    /\ status' = "destroyed"
    /\ ret' = Void
    /\ call' = Call("destroy", NoBuf, NoBuf, FALSE)
    /\ UNCHANGED <<buckets, key_size, value_size, cy, cx, visited, clean>>
    /\ UNCHANGED others

-----------------------------------------------------------------------------
Next ==
    \/ table_set
    \/ table_get
    \/ table_exists
    \/ table_delete
    \/ table_rewind
    \/ table_next
    \/ table_destroy

Spec == Init /\ [][Next]_vars

-----------------------------------------------------------------------------
(* The string-keyed hash table (hash-table header): __HASH_TABLE_SIZE bucket *)
(* heads behind a header holding the value size and the hash function;      *)
(* items are doubly linked and own a copy of their key and a value block.   *)

__HASH_TABLE_SIZE == 100

\* Bound on the number of items a run creates.
MaxItems == 4

\* Keys: strings without their terminating zero; NullKey is the NULL pointer.
NullKey == <<0>>
HtKeys == { <<97>>, <<98>>, <<97, 98>> }

\* The hash functions the caller passes to htinit.  Under "strlen" the keys
\* <<97>> and <<98>> share a bucket, under "first" <<97>> and <<97, 98>>.
Hashers == {"strlen", "first"}
hasher(name, key) == IF name = "strlen" THEN Len(key) ELSE key[1]

\* sizeof(V)
VTypes == {4}

\* An item: its key copy, the address of its value block (the number of the
\* item, counted from 1 in order of creation) and its prev link (0 is NULL).
\* A chain is the sequence of items reached from a bucket head along next.
\* An item no chain reaches is kept with the head its next link points to.
__htitem(key, id) == [key |-> key, value |-> id, prev |-> 0]

HtPair(id) == Ret("pair", 0, id)    \* the KVPair of item id
HtValue(id) == Ret("value", 0, id)  \* the value block of item id

\* __htinit / __header
HtInit ==
    /\ NoTable
    /\ NoOthersBut("ht")
    /\ \E h \in Hashers, v \in VTypes :
          ht = [items   |-> [i \in 0 .. (__HASH_TABLE_SIZE - 1) |-> << >>],
                hasher  |-> h,
                vtype   |-> v,
                count   |-> 0,
                unlinked |-> {}]
    /\ status = "running"
    /\ call = Call("htinit", NoBuf, NoBuf, FALSE)
    /\ ret = Void

\* while(current != NULL) { if(strcmp(current->key, key) == 0) ...;
\*   current = current->next; }
RECURSIVE HtScanFrom(_, _, _)
HtScanFrom(chain, key, p) ==
    IF p > Len(chain) THEN 0
    ELSE IF chain[p].key = key THEN p
    ELSE HtScanFrom(chain, key, p + 1)

HtScan(chain, key) == HtScanFrom(chain, key, 1)

HtIndex(h, key) == hasher(h.hasher, key) % __HASH_TABLE_SIZE

HtResult(h, r, st) == [ht |-> h, ret |-> r, status |-> st]

__htset(h, key) ==
    IF key = NullKey THEN HtResult(h, NoReturn, "exited")
    ELSE
      LET index == HtIndex(h, key)
          chain == h.items[index]
          p     == HtScan(chain, key)
          id    == h.count + 1
          item  == __htitem(key, id)
      IN  IF p # 0 THEN HtResult(h, HtValue(chain[p].value), "running")
          ELSE IF chain = << >>
          THEN HtResult([h EXCEPT !.items[index] = <<item>>, !.count = id],
                        HtValue(id), "running")
          ELSE \* item->next = *itemptr; (*itemptr)->prev = item;
               \* the bucket head is not assigned
               HtResult([h EXCEPT !.items[index][1].prev = id,
                                  !.count = id,
                                  !.unlinked = @ \cup
                                      {[item |-> item,
                                        next |-> chain[1].value]}],
                        HtValue(id), "running")

\* Faulty variant: a key that is not found ends the process, as in htget.
HtTryGetFatal(h, key) ==
    IF key = NullKey THEN HtResult(h, NoReturn, "exited")
    ELSE
      LET chain == h.items[HtIndex(h, key)]
          p     == HtScan(chain, key)
      IN  IF p # 0 THEN HtResult(h, HtPair(chain[p].value), "running")
          ELSE HtResult(h, NoReturn, "exited")

__httryget(h, key) ==
    IF key = NullKey THEN HtResult(h, NoReturn, "exited")
    ELSE
      LET chain == h.items[HtIndex(h, key)]
          p     == HtScan(chain, key)
      IN  IF p # 0 THEN HtResult(h, HtPair(chain[p].value), "running")
          ELSE HtResult(h, Null, "running")

__htget(h, key) ==
    LET r == __httryget(h, key)
    IN  IF r.status # "running" THEN r
        ELSE IF r.ret = Null THEN HtResult(h, NoReturn, "exited")
        ELSE HtResult(h, HtValue(r.ret.pos), "running")

\* Whether the call creates an item.
HtCreates(h, key) ==
    key # NullKey /\ HtScan(h.items[HtIndex(h, key)], key) = 0

htset ==
    /\ status = "running"
    /\ \E key \in HtKeys \cup {NullKey} :
          /\ HtCreates(ht, key) => ht.count < MaxItems
          /\ LET r == __htset(ht, key)
             IN  /\ ht' = r.ht
                 /\ ret' = r.ret
                 /\ status' = r.status
                 /\ call' = Call("htset", key, NoBuf, ~HtCreates(ht, key))
    /\ UNCHANGED not_ht

httryget ==
    /\ status = "running"
    /\ \E key \in HtKeys \cup {NullKey} :
          LET r == __httryget(ht, key)
          IN  /\ ht' = r.ht
              /\ ret' = r.ret
              /\ status' = r.status
              /\ call' = Call("httryget", key, NoBuf, r.ret.kind = "pair")
    /\ UNCHANGED not_ht

htget ==
    /\ status = "running"
    /\ \E key \in HtKeys \cup {NullKey} :
          LET r == __htget(ht, key)
          IN  /\ ht' = r.ht
              /\ ret' = r.ret
              /\ status' = r.status
              /\ call' = Call("htget", key, NoBuf, r.ret.kind = "value")
    /\ UNCHANGED not_ht

\* The heap blocks of a table: the header (the handle points into it), the
\* bucket array, and for item id the item, its key copy and its value.
HtBlock(kind, id) == <<kind, id>>
HtHeader == HtBlock("header", 0)
HtArray == HtBlock("buckets", 0)

\* while(current != NULL) { next = current->next; free(current->key);
\*   free(current->value); free(current); current = next; }
RECURSIVE HtCleanChain(_)
HtCleanChain(chain) ==
    IF chain = << >> THEN << >>
    ELSE LET id == chain[1].value
         IN  << [op |-> "read", blk |-> HtBlock("item", id)],
                [op |-> "free", blk |-> HtBlock("key", id)],
                [op |-> "free", blk |-> HtBlock("value", id)],
                [op |-> "free", blk |-> HtBlock("item", id)] >>
                 \o HtCleanChain(Tail(chain))

\* for(i = 0; i < __HASH_TABLE_SIZE; ++i) { item = items[i]; ... }
RECURSIVE HtCleanBuckets(_, _)
HtCleanBuckets(h, i) ==
    IF i >= __HASH_TABLE_SIZE THEN << >>
    ELSE << [op |-> "read", blk |-> HtArray] >>
             \o HtCleanChain(h.items[i]) \o HtCleanBuckets(h, i + 1)

\* items = *table, read from the header block after free(header): the
\* pointer is found as it was, or the read traps.
FreedReads == {"intact", "fault"}

\* What __htclean does to the heap, in order.
__htclean(h, read) ==
    << [op |-> "free", blk |-> HtHeader],
       [op |-> "read", blk |-> HtHeader] >>
        \o (IF read = "fault" THEN << >> ELSE HtCleanBuckets(h, 0))

htclean ==
    /\ status = "running"
    /\ \E read \in FreedReads :
          /\ freed' = __htclean(ht, read)
          /\ status' = IF read = "fault" THEN "killed" ELSE "destroyed"
          /\ ret' = IF read = "fault" THEN NoReturn ELSE Void
    /\ call' = Call("htclean", NoBuf, NoBuf, FALSE)
    /\ UNCHANGED <<buckets, key_size, value_size, cy, cx, visited, clean,
                   ht, others_but_ht>>

HtNext ==
    \/ htset
    \/ httryget
    \/ htget
    \/ htclean

HtSpec == HtInit /\ [][HtNext]_vars

-----------------------------------------------------------------------------
(* The linked list (list.h): a header (count, type, curr) followed by the   *)
(* head and tail pointers; nodes are doubly linked and own a data block.    *)

\* Bound on the number of nodes a run appends.
MaxNodes == 5

\* sizeof(T)
LlTypes == {4}

\* A node is numbered from 1 in order of creation, 0 is NULL; its data block
\* has the node's number.  next and prev map a node to its neighbour.
LlData(n) == Ret("data", 0, n)

\* __llinit / __llheader: everything zeroed but type.
LlInit ==
    /\ buckets = NoObject /\ key_size = 0 /\ value_size = 0
    /\ cy = 0 /\ cx = 0 /\ freed = << >>
    /\ NoOthersBut("ll")
    /\ \E t \in LlTypes :
          ll = [count |-> 0, type |-> t, curr |-> 0, head |-> 0, tail |-> 0,
                next |-> << >>, prev |-> << >>]
    /\ status = "running"
    /\ call = Call("llinit", NoBuf, NoBuf, FALSE)
    /\ ret = Void
    /\ visited = << >>
    /\ clean = FALSE

\* Faulty variant: the new node is linked in front of the head.
LlPrepend(l) ==
    LET node == Len(l.next) + 1
    IN  IF l.head = 0
        THEN [l EXCEPT !.count = @ + 1, !.head = node, !.tail = node,
                       !.next = Append(@, 0), !.prev = Append(@, 0)]
        ELSE [l EXCEPT !.count = @ + 1, !.head = node,
                       !.next = Append(@, l.head),
                       !.prev = [Append(@, 0) EXCEPT ![l.head] = node]]

\* The list after __llappend; the node created is number Len(l.next) + 1.
__llappend(l) ==
    LET node == Len(l.next) + 1
    IN  IF l.head = 0
        THEN [l EXCEPT !.count = @ + 1, !.head = node, !.tail = node,
                       !.next = Append(@, 0), !.prev = Append(@, 0)]
        ELSE [l EXCEPT !.count = @ + 1, !.tail = node,
                       !.next = [Append(@, 0) EXCEPT ![l.tail] = node],
                       !.prev = Append(@, l.tail)]

__llreset(l) == [l EXCEPT !.curr = l.head]

__llend(l) == l.curr = 0

__llget(l) == IF l.curr = 0 THEN Null ELSE LlData(l.curr)

\* The list after __llnext and the pointer returned.
__llnext(l) ==
    IF __llend(l) THEN [ll |-> l, ret |-> Null]
    ELSE [ll |-> [l EXCEPT !.curr = l.next[l.curr]], ret |-> __llget(l)]

__llcount(l) == l.count

llappend ==
    /\ status = "running"
    /\ ll.count < MaxNodes
    /\ ll' = __llappend(ll)
    /\ ret' = LlData(Len(ll.next) + 1)
    /\ call' = Call("llappend", NoBuf, NoBuf, FALSE)
    /\ visited' = << >>
    /\ clean' = FALSE
    /\ UNCHANGED <<status, not_ll>>

llreset ==
    /\ status = "running"
    /\ ll' = __llreset(ll)
    /\ ret' = Void
    /\ call' = Call("llreset", NoBuf, NoBuf, FALSE)
    /\ visited' = << >>
    /\ clean' = TRUE
    /\ UNCHANGED <<status, not_ll>>

llnext ==
    /\ status = "running"
    /\ LET r == __llnext(ll)
       IN  /\ ll' = r.ll
           /\ ret' = r.ret
           /\ call' = Call("llnext", NoBuf, NoBuf, r.ret # Null)
           /\ visited' = IF clean /\ r.ret # Null
                         THEN Append(visited, r.ret) ELSE visited
    /\ UNCHANGED <<status, clean, not_ll>>

llend ==
    /\ status = "running"
    /\ ret' = IF __llend(ll) THEN True ELSE False
    /\ call' = Call("llend", NoBuf, NoBuf, __llend(ll))
    /\ UNCHANGED <<status, ll, visited, clean, not_ll>>

llcount ==
    /\ status = "running"
    /\ ret' = Ret("count", 0, __llcount(ll))
    /\ call' = Call("llcount", NoBuf, NoBuf, FALSE)
    /\ UNCHANGED <<status, ll, visited, clean, not_ll>>

\* The heap blocks of a list: the header (the handle points into it), and
\* for node n the node itself and its data.
LlHeader == <<"header", 0>>
LlNode(n) == <<"node", n>>
LlDataBlock(n) == <<"data", n>>

Write(blk) == [op |-> "write", blk |-> blk]

\* while(current != NULL) { next = current->next; free(current->data);
\*   free(current); current = next; }
RECURSIVE LlCleanFrom(_, _)
LlCleanFrom(l, current) ==
    IF current = 0 THEN << >>
    ELSE <<Read(LlNode(current)), Free(LlDataBlock(current)),
           Free(LlNode(current))>> \o LlCleanFrom(l, l.next[current])

\* What __llclean does to the heap, in order: head = *ll; the walk;
\* header->count = 0; free(header); *ll = NULL.
__llclean(l) ==
    <<Read(LlHeader)>> \o LlCleanFrom(l, l.head)
        \o <<Write(LlHeader), Free(LlHeader), Write(LlHeader)>>

\* A store to a freed block: it lands in the freed memory, or it traps.
FreedStores == {"stored", "fault"}

llclean ==
    /\ status = "running"
    /\ freed' = __llclean(ll)
    /\ ll' = [ll EXCEPT !.count = 0]
    /\ \E outcome \in FreedStores :
          status' = IF outcome = "fault" THEN "killed" ELSE "destroyed"
    /\ ret' = IF status' = "killed" THEN NoReturn ELSE Void
    /\ call' = Call("llclean", NoBuf, NoBuf, FALSE)
    /\ visited' = << >>
    /\ clean' = FALSE
    /\ UNCHANGED <<buckets, key_size, value_size, cy, cx, others_but_ll>>

LlNext ==
    \/ llappend
    \/ llreset
    \/ llnext
    \/ llend
    \/ llcount
    \/ llclean

LlSpec == LlInit /\ [][LlNext]_vars

-----------------------------------------------------------------------------
(* The growable array: an ArrayHeader (length, cap, item_size) followed by  *)
(* cap items in one block.  items[i + 1] is what the block holds at index   *)
(* i, for every index below cap, in use or not.                             *)

ARRAY_INITIAL_CAPACITY == 10

\* Bound on the length the array is grown to.
MaxLength == 11

\* sizeof(T), the values the caller stores, and what an item that was never
\* stored to holds.
ItemSizes == {4}
Items == {1, 2}
Junk == 0

\* A pointer to the item at index idx of the block.
ItemPtr(idx) == Ret("item", 0, idx)

ArResult(a, r, st) == [ar |-> a, ret |-> r, status |-> st]

\* __array_create: malloc, nothing but the header is written.
ArInit ==
    /\ NoTable
    /\ NoOthersBut("ar")
    /\ \E sz \in ItemSizes :
          ar = [length |-> 0, cap |-> ARRAY_INITIAL_CAPACITY,
                item_size |-> sz,
                items |-> [i \in 1 .. ARRAY_INITIAL_CAPACITY |-> Junk]]
    /\ status = "running"
    /\ call = Call("array_create", NoBuf, NoBuf, FALSE)
    /\ ret = Void

\* Faulty variant: a fresh block is allocated and the old one is not copied.
MallocFresh(items, cap) == [i \in 1 .. cap |-> Junk]

\* realloc(header, sizeof(ArrayHeader) + cap * item_size): the old contents,
\* followed by items nothing was stored to.
Realloc(items, cap) ==
    [i \in 1 .. cap |-> IF i <= Len(items) THEN items[i] ELSE Junk]

__array_append(a) ==
    IF a.length < a.cap
    THEN [a EXCEPT !.length = @ + 1]
    ELSE [a EXCEPT !.cap = 2 * @,
                   !.items = Realloc(@, 2 * a.cap),
                   !.length = @ + 1]

\* Faulty variant: the pointer is computed as if length had not yet been
\* decreased, so it points one item before the one removed.
PopBeforeLast(a) ==
    IF a.length = 0 THEN ArResult(a, NoReturn, "exited")
    ELSE ArResult([a EXCEPT !.length = @ - 1], ItemPtr(a.length - 2),
                  "running")

__array_pop(a) ==
    IF a.length = 0 THEN ArResult(a, NoReturn, "exited")
    ELSE ArResult([a EXCEPT !.length = @ - 1], ItemPtr(a.length - 1),
                  "running")

__array_at(a, idx) ==
    IF idx >= a.length THEN ArResult(a, NoReturn, "exited")
    ELSE ArResult(a, ItemPtr(idx), "running")

\* The caller stores to the new item before any other call, as in the
\* documented use:  arr = array_append(int, arr); arr[length - 1] = x.
Stored == call.op # "array_append"

array_append ==
    /\ status = "running"
    /\ Stored
    /\ ar.length < MaxLength
    /\ ar' = __array_append(ar)
    /\ ret' = Void
    /\ call' = Call("array_append", NoBuf, NoBuf, ar.length = ar.cap)
    /\ UNCHANGED <<status, not_ar>>

\* The caller's  arr[array_length(arr) - 1] = x  after an append.
array_store ==
    /\ status = "running"
    /\ call.op = "array_append"
    /\ \E x \in Items :
          /\ ar' = [ar EXCEPT !.items[ar.length] = x]
          /\ call' = Call("store", <<ar.length - 1>>, <<x>>, FALSE)
    /\ ret' = Void
    /\ UNCHANGED <<status, not_ar>>

array_pop ==
    /\ status = "running"
    /\ Stored
    /\ LET r == __array_pop(ar)
       IN  /\ ar' = r.ar
           /\ ret' = r.ret
           /\ status' = r.status
           /\ call' = Call("array_pop", NoBuf, NoBuf, r.status = "running")
    /\ UNCHANGED not_ar

\* The indices array_at is called with: the first, the last, and the two
\* past the last.
AtIndices(a) ==
    {0, a.length, a.length + 1} \cup
    (IF a.length > 0 THEN {a.length - 1} ELSE {})

array_at ==
    /\ status = "running"
    /\ Stored
    /\ \E idx \in AtIndices(ar) :
          LET r == __array_at(ar, idx)
          IN  /\ ar' = r.ar
              /\ ret' = r.ret
              /\ status' = r.status
              /\ call' = Call("array_at", <<idx>>, NoBuf, r.status = "running")
    /\ UNCHANGED not_ar

ArNext ==
    \/ array_append
    \/ array_store
    \/ array_pop
    \/ array_at

ArSpec == ArInit /\ [][ArNext]_vars

-----------------------------------------------------------------------------
(* The array of array.h: a header (count, size, type) followed by a pointer  *)
(* to the item block, which is NULL until the first append.  data[i + 1] is  *)
(* what the block holds at index i, for every index below size.             *)

\* Bound on the length of the arrays filtered, all of which are tried.
MaxInput == 3

\* The item values (items are type bytes wide; one value stands for them).
FaItems == {1, 2, 3}
FaTypes == {4}

\* One longer array, whose filtered copy outgrows the first block.
LongInput == [i \in 1 .. 21 |-> (i % 3) + 1]

Inputs == UNION {[1 .. n -> FaItems] : n \in 0 .. MaxInput} \cup {LongInput}

\* The filter callbacks  bool cb(T *item).
Callbacks == {"all", "none", "odd", "big"}
cb(name, item) ==
    CASE name = "all" -> TRUE
      [] name = "none" -> FALSE
      [] name = "odd" -> item % 2 = 1
      [] name = "big" -> item > 1

\* __arrinit / __arrheader
__arrinit(type) == [count |-> 0, size |-> 0, type |-> type, data |-> << >>]

\* realloc(*arr, size * type)
ArrRealloc(data, size) ==
    [i \in 1 .. size |-> IF i <= Len(data) THEN data[i] ELSE Junk]

\* The array after __arrappend; the pointer returned is to index count of
\* the array before.
__arrappend(a) ==
    LET size == IF a.count >= a.size
                THEN 2 * (IF a.size = 0 THEN 10 ELSE a.size)
                ELSE a.size
        data == IF a.count >= a.size THEN ArrRealloc(a.data, size)
                ELSE a.data
    IN  [a EXCEPT !.size = size, !.data = data, !.count = @ + 1]

\* memcpy(__arrappend(a), item, type)
ArrPush(a, item) == [__arrappend(a) EXCEPT !.data[a.count + 1] = item]

__arrcount(a) == a.count

\* The item __arrgetp points to, for idx < count.
__arrgetp(a, idx) == a.data[idx + 1]

\* The array built by appending the items of a sequence in turn.
RECURSIVE ArrFrom(_, _)
ArrFrom(seq, type) ==
    IF seq = << >> THEN __arrinit(type)
    ELSE ArrPush(ArrFrom(SubSeq(seq, 1, Len(seq) - 1), type),
                 seq[Len(seq)])

\* Faulty variant: the item copied is the one at the result's count, not
\* the one tested.
RECURSIVE FilterCopiesWrongItem(_, _, _, _)
FilterCopiesWrongItem(a, name, i, result) ==
    IF i >= __arrcount(a) THEN result
    ELSE FilterCopiesWrongItem(a, name, i + 1,
             IF cb(name, __arrgetp(a, i))
             THEN ArrPush(result, __arrgetp(a, result.count))
             ELSE result)

\* for(i = 0; i < count; ++i) { item = __arrgetp(arr, i);
\*   if(!cb(item)) continue; memcpy(__arrappend(result), item, type); }
RECURSIVE FilterLoop(_, _, _, _)
FilterLoop(a, name, i, result) ==
    IF i >= __arrcount(a) THEN result
    ELSE FilterLoop(a, name, i + 1,
             IF cb(name, __arrgetp(a, i))
             THEN ArrPush(result, __arrgetp(a, i))
             ELSE result)

__arrfilter(a, name) == FilterLoop(a, name, 0, __arrinit(a.type))

FaInit ==
    /\ NoTable
    /\ NoOthersBut("fa")
    /\ \E seq \in Inputs, type \in FaTypes :
          fa = [src |-> ArrFrom(seq, type), dst |-> NoObject]
    /\ status = "running"
    /\ call = Call("arrinit", NoBuf, NoBuf, FALSE)
    /\ ret = Void

arrfilter ==
    /\ status = "running"
    /\ \E name \in Callbacks :
          /\ fa' = [fa EXCEPT !.dst = __arrfilter(fa.src, name)]
          /\ call' = Call("arrfilter", <<name>>, NoBuf, FALSE)
    /\ ret' = Void
    /\ UNCHANGED <<status, not_fa>>

FaNext == arrfilter

FaSpec == FaInit /\ [][FaNext]_vars

-----------------------------------------------------------------------------
(* The String of string.h: a pointer to count bytes, no terminator.  A      *)
(* String is the sequence of its bytes.                                     *)

\* Bound on the count of the strings searched and searched for.
MaxStr == 3

Alphabet == {97, 98}
Strings == UNION {[1 .. n -> Alphabet] : n \in 0 .. MaxStr}

\* b.data[0] of a String with count 0 is a read outside its bytes: of NULL
\* (strnull), which traps, or of whatever byte lies there.
Trap == 0 - 1
StrayReads == Alphabet \cup {0, Trap}

StrIndex(n) == Ret("index", 0, n)

\* The inner loop of strfind: the first offset at which b and a, read from
\* base, differ, or b.count.
RECURSIVE MatchLen(_, _, _, _)
MatchLen(a, b, base, offset) ==
    IF offset < Len(b) /\ b[offset + 1] = a[base + offset + 1]
    THEN MatchLen(a, b, base, offset + 1)
    ELSE offset

\* while (base < a.count - b.count) { ... base += 1; }  return a.count;
RECURSIVE FindFrom(_, _, _, _)
FindFrom(a, b, base, stray) ==
    IF ~(base < Len(a) - Len(b)) THEN StrIndex(Len(a))
    ELSE LET first == IF Len(b) = 0 THEN stray ELSE b[1]
         IN  IF first = Trap THEN NoReturn
             ELSE IF a[base + 1] = first
                     /\ MatchLen(a, b, base, 0) = Len(b)
                  THEN StrIndex(base)
                  ELSE FindFrom(a, b, base + 1, stray)

strfind_(a, b, stray) ==
    IF Len(b) > Len(a) THEN StrIndex(Len(a)) ELSE FindFrom(a, b, 0, stray)

\* strexists(a, b): strfind(a, b) != a.count
strexists_(a, b, stray) ==
    LET r == strfind_(a, b, stray)
    IN  IF r = NoReturn THEN NoReturn
        ELSE IF r # StrIndex(Len(a)) THEN True ELSE False

StInit ==
    /\ NoTable
    /\ NoOthersBut("strs")
    /\ \E a \in Strings, b \in Strings : strs = [a |-> a, b |-> b]
    /\ status = "running"
    /\ call = Call("str", NoBuf, NoBuf, FALSE)
    /\ ret = Void

\* The bytes a call can read at b.data[0].
Strays == IF Len(strs.b) = 0 /\ Len(strs.a) > 0 THEN StrayReads ELSE {0}

strfind ==
    /\ status = "running"
    /\ \E stray \in Strays :
          /\ ret' = strfind_(strs.a, strs.b, stray)
          /\ call' = Call("strfind", strs.a, strs.b, FALSE)
    /\ status' = IF ret' = NoReturn THEN "killed" ELSE "running"
    /\ UNCHANGED <<strs, not_strs>>

strexists ==
    /\ status = "running"
    /\ \E stray \in Strays :
          /\ ret' = strexists_(strs.a, strs.b, stray)
          /\ call' = Call("strexists", strs.a, strs.b, FALSE)
    /\ status' = IF ret' = NoReturn THEN "killed" ELSE "running"
    /\ UNCHANGED <<strs, not_strs>>

StNext == strfind \/ strexists

StSpec == StInit /\ [][StNext]_vars

-----------------------------------------------------------------------------
(* The StringView: a pointer to size characters.  A view is the sequence of *)
(* its character codes.  int is 32 bits wide; a value of that width is kept *)
(* as two 16-bit limbs <<hi, lo>>, two's complement.                       *)

\* Bound on the size of the views, all of which are tried.
MaxView == 3

\* '-', '0', '1', '9', 'x'
Chars == {45, 48, 49, 57, 120}

\* Numerals at and around the ends of the range of int.
LongViews ==
    { <<50, 49, 52, 55, 52, 56, 51, 54, 52, 55>>,        \* 2147483647
      <<50, 49, 52, 55, 52, 56, 51, 54, 52, 56>>,        \* 2147483648
      <<45, 50, 49, 52, 55, 52, 56, 51, 54, 52, 55>>,    \* -2147483647
      <<45, 50, 49, 52, 55, 52, 56, 51, 54, 52, 56>>,    \* -2147483648
      <<57, 57, 57, 57, 57, 57, 57, 57, 57, 57>>,        \* 9999999999
      <<48, 48, 48, 48, 48, 48, 48, 48, 48, 48, 55>> }   \* 00000000007

Views == UNION {[1 .. n -> Chars] : n \in 0 .. MaxView} \cup LongViews

isdigit(c) == c \in 48 .. 57

Limb == 65536
HalfLimb == 32768

\* The int a pair of limbs stands for.
ToInt(hi, lo) == (IF hi >= HalfLimb THEN hi - Limb ELSE hi) * Limb + lo

IntResult(n) == Ret("int", 0, n)

\* Signed overflow is undefined: the build wraps, or traps.
Overflows == {"wrap", "trap"}

\* sv_is_int
sv_is_int_(v) ==
    IF Len(v) = 0 THEN FALSE
    ELSE IF v[1] = 45 /\ Len(v) = 1 THEN FALSE
    ELSE \A i \in (IF v[1] = 45 THEN 2 ELSE 1) .. Len(v) : isdigit(v[i])

\* result = result * 10 + (sv.content[i] - '0'), from index i on (counted
\* from 1); the outcome is the limbs of result, or a trap.
RECURSIVE ConvLoop(_, _, _, _, _)
ConvLoop(v, i, hi, lo, overflow) ==
    IF i > Len(v) THEN [trap |-> FALSE, hi |-> hi, lo |-> lo]
    ELSE LET t    == lo * 10 + (v[i] - 48)
             high == (IF hi >= HalfLimb THEN hi - Limb ELSE hi) * 10
                         + (t \div Limb)
         IN  IF (high < 0 - HalfLimb \/ high >= HalfLimb)
                /\ overflow = "trap"
             THEN [trap |-> TRUE, hi |-> hi, lo |-> lo]
             ELSE ConvLoop(v, i + 1, high % Limb, t % Limb, overflow)

\* sv_conv_int; first is the character read at sv.content[0].
sv_conv_int_(v, first, overflow) ==
    LET sign == IF first = 45 THEN 0 - 1 ELSE 1
        r    == ConvLoop(v, IF first = 45 THEN 2 ELSE 1, 0, 0, overflow)
    IN  IF first = Trap \/ r.trap THEN NoReturn
        ELSE IF sign = 1 THEN IntResult(ToInt(r.hi, r.lo))
        ELSE IF r.hi = HalfLimb /\ r.lo = 0
             THEN (IF overflow = "trap" THEN NoReturn
                   ELSE IntResult(ToInt(r.hi, r.lo)))
        ELSE IntResult(0 - ToInt(r.hi, r.lo))

SvInit ==
    /\ NoTable
    /\ NoOthersBut("view")
    /\ view \in Views
    /\ status = "running"
    /\ call = Call("sv", NoBuf, NoBuf, FALSE)
    /\ ret = Void

sv_is_int ==
    /\ status = "running"
    /\ ret' = IF sv_is_int_(view) THEN True ELSE False
    /\ call' = Call("sv_is_int", view, NoBuf, FALSE)
    /\ UNCHANGED <<status, view, not_view>>

\* sv.content[0] of a view of size 0 is a read outside its characters.
sv_conv_int ==
    /\ status = "running"
    /\ \E overflow \in Overflows,
          first \in (IF Len(view) = 0 THEN {45, 0, Trap} ELSE {view[1]}) :
          /\ ret' = sv_conv_int_(view, first, overflow)
          /\ call' = Call("sv_conv_int", view, <<overflow>>, FALSE)
    /\ status' = IF ret' = NoReturn THEN "killed" ELSE "running"
    /\ UNCHANGED <<view, not_view>>

SvNext == sv_is_int \/ sv_conv_int

SvSpec == SvInit /\ [][SvNext]_vars

-----------------------------------------------------------------------------
(* The table without delete and cursor: the same header but for cx and cy,  *)
(* the same hash and index, chains of the same nodes.  heads[i] is the      *)
(* chain of bucket i: the nodes set installed, first the latest, and rest,  *)
(* what the head word held before any of them was installed.               *)

\* A word of the block malloc returned that nothing has written holds no
\* definite value ("uninit") until it is read; the read finds zero
\* ("null") or some other pattern ("junk").
WordReads(rest) == IF rest = "uninit" THEN {"null", "junk"} ELSE {rest}

\* What a key scan does on reaching a junk pointer: the access traps; or the
\* bytes found there compare equal to the key; or they do not and the links
\* read from there on run into a zero word.
JunkScans == {"fault", "match", "miss"}
ScanChoices(read) == IF read = "junk" THEN JunkScans ELSE {"miss"}

\* __table_create of this variant: malloc, the two sizes stored.
PtInit ==
    /\ NoTable
    /\ NoOthersBut("pt")
    /\ \E ks \in KeySizes, vs \in ValueSizes :
          pt = [key_size |-> ks, value_size |-> vs,
                heads |-> [i \in Buckets |->
                              [nodes |-> << >>, rest |-> "uninit"]],
                wild |-> FALSE]
    /\ status = "running"
    /\ call = Call("create", NoBuf, NoBuf, FALSE)
    /\ ret = Void

PtResult(t, r, st) == [pt |-> t, ret |-> r, status |-> st]

\* The table once a junk pointer has been followed.
Followed(t, index) ==
    [t EXCEPT !.heads[index].rest = "junk", !.wild = TRUE]

\* __table_set of this variant; read is what the head word is found to hold
\* below the nodes installed, scan what following it does if it is junk.
PtSet(t, key, value, read, scan) ==
    LET index == __table_get_index__(t.key_size, key)
        p     == Scan(t.heads[index].nodes, t.key_size, key)
        node  == __table_node_create__(t.key_size, t.value_size, key, value)
    IN  IF p # 0
        THEN PtResult([t EXCEPT !.heads[index].nodes[p].value =
                                    SubSeq(value, 1, t.value_size),
                                !.heads[index].rest = read],
                      Void, "running")
        ELSE IF read = "null"
        THEN PtResult([t EXCEPT !.heads[index].nodes = <<node>> \o @,
                                !.heads[index].rest = read],
                      Void, "running")
        ELSE IF scan = "fault"
        THEN PtResult(Followed(t, index), NoReturn, "killed")
        ELSE IF scan = "match"
        THEN PtResult(Followed(t, index), Void, "running")
        ELSE PtResult([Followed(t, index) EXCEPT
                           !.heads[index].nodes = <<node>> \o @],
                      Void, "running")

\* __table_get of this variant.
PtGet(t, key, read, scan) ==
    LET index == __table_get_index__(t.key_size, key)
        p     == Scan(t.heads[index].nodes, t.key_size, key)
    IN  IF p # 0
        THEN PtResult([t EXCEPT !.heads[index].rest = read],
                      Ref(index, p), "running")
        ELSE IF read = "null"
        THEN PtResult([t EXCEPT !.heads[index].rest = read],
                      NoReturn, "exited")
        ELSE IF scan = "fault"
        THEN PtResult(Followed(t, index), NoReturn, "killed")
        ELSE IF scan = "match"
        THEN PtResult(Followed(t, index), Wild, "running")
        ELSE PtResult(Followed(t, index), NoReturn, "exited")

\* The buckets whose head word destroy can find to be junk.
MaybeJunk(t) == {i \in Buckets : t.heads[i].rest # "null"}
MustBeJunk(t) == {i \in Buckets : t.heads[i].rest = "junk"}

\* What __table_destroy of this variant does at the end of the chains:
\* every word is zero and the walk is clean, or it reads a link in and
\* frees what a junk pointer points at, which traps or goes through.
DestroyWalks(t) ==
    (IF MustBeJunk(t) = {} THEN {"clean"} ELSE {})
        \cup (IF MaybeJunk(t) = {} THEN {} ELSE {"fault", "wild"})

pt_set ==
    /\ status = "running"
    /\ \E key \in KeyBufs, value \in ValueBufs :
       LET h == pt.heads[__table_get_index__(pt.key_size, key)]
       IN  \E read \in WordReads(h.rest) :
           \E scan \in ScanChoices(read) :
              LET r == PtSet(pt, key, value, read, scan)
              IN  /\ pt' = r.pt
                  /\ ret' = r.ret
                  /\ status' = r.status
                  /\ call' = Call("set", key, value,
                                  Scan(h.nodes, pt.key_size, key) # 0)
    /\ UNCHANGED not_pt

pt_get ==
    /\ status = "running"
    /\ \E key \in KeyBufs :
       LET h == pt.heads[__table_get_index__(pt.key_size, key)]
       IN  \E read \in WordReads(h.rest) :
           \E scan \in ScanChoices(read) :
              LET r == PtGet(pt, key, read, scan)
              IN  /\ pt' = r.pt
                  /\ ret' = r.ret
                  /\ status' = r.status
                  /\ call' = Call("get", key, NoBuf,
                                  Scan(h.nodes, pt.key_size, key) # 0)
    /\ UNCHANGED not_pt

pt_destroy ==
    /\ status = "running"
    /\ \E walk \in DestroyWalks(pt) :
          /\ pt' = [pt EXCEPT !.wild = @ \/ walk # "clean"]
          /\ status' = IF walk = "fault" THEN "killed" ELSE "destroyed"
          /\ ret' = IF walk = "fault" THEN NoReturn ELSE Void
    /\ call' = Call("destroy", NoBuf, NoBuf, FALSE)
    /\ UNCHANGED not_pt

PtNext == pt_set \/ pt_get \/ pt_destroy

PtSpec == PtInit /\ [][PtNext]_vars

-----------------------------------------------------------------------------
(* The generic table with its caller's memory: the key and value buffers    *)
(* the caller passes to set, which the caller may write to afterwards, and  *)
(* for every node where its key and value pointers point.                   *)

\* Faulty variant: the node keeps the pointers it was given.
PointersToCaller(ks) == [key |-> "caller", value |-> "caller"]

\* node->key = (char *)node + sizeof(TableNode);  node->value = (char *)node
\* + sizeof(TableNode) + key_size: both point into the node's own block.
NodePointers(ks) == [key |-> "node", value |-> "node"]

\* The bytes a node's key and value pointers lead to.
Pointee(node, ptr, ks, vs, c) ==
    [key   |-> IF ptr.key = "node" THEN node.key ELSE SubSeq(c.key, 1, ks),
     value |-> IF ptr.value = "node" THEN node.value
               ELSE SubSeq(c.value, 1, vs)]

\* The chains as the node pointers show them.
Pointees(b, ks, vs, c) ==
    [i \in Buckets |->
        [p \in 1 .. Len(b[i]) |-> Pointee(b[i][p], c.ptrs[i][p], ks, vs, c)]]

CpInit ==
    /\ key_size \in KeySizes
    /\ value_size \in ValueSizes
    /\ buckets = [i \in Buckets |-> << >>]
    /\ cx = 0
    /\ cy = 0
    /\ freed = << >>
    /\ visited = << >>
    /\ clean = TRUE
    /\ NoOthersBut("cp")
    /\ \E key \in KeyBufs, value \in ValueBufs :
          cp = [key |-> key, value |-> value,
                ptrs |-> [i \in Buckets |-> << >>]]
    /\ status = "running"
    /\ call = Call("create", NoBuf, NoBuf, FALSE)
    /\ ret = Void

\* table_set(t, cp.key, cp.value)
cp_set ==
    /\ status = "running"
    /\ LET seen  == Pointees(buckets, key_size, value_size, cp)
           index == __table_get_index__(key_size, cp.key)
           hit   == Present(seen, key_size, cp.key)
       IN  /\ buckets' = __table_set(seen, key_size, value_size,
                                     cp.key, cp.value)
           /\ cp' = IF hit THEN cp
                    ELSE [cp EXCEPT !.ptrs[index] =
                                       <<NodePointers(key_size)>> \o @]
           /\ call' = Call("set", cp.key, cp.value, hit)
    /\ ret' = Void
    /\ UNCHANGED <<key_size, value_size, status, not_cp>>

\* The caller writes other bytes to its key buffer or to its value buffer.
cp_write ==
    /\ status = "running"
    /\ \/ \E key \in KeyBufs \ {cp.key} :
             /\ cp' = [cp EXCEPT !.key = key]
             /\ call' = Call("write", key, cp.value, FALSE)
       \/ \E value \in ValueBufs \ {cp.value} :
             /\ cp' = [cp EXCEPT !.value = value]
             /\ call' = Call("write", cp.key, value, FALSE)
    /\ ret' = Void
    /\ UNCHANGED <<buckets, key_size, value_size, status, not_cp>>

\* table_get(t, key), with any key bytes
cp_get ==
    /\ status = "running"
    /\ \E key \in KeyBufs :
          LET r == __table_get(Pointees(buckets, key_size, value_size, cp),
                               key_size, key)
          IN  /\ ret' = r
              /\ status' = IF r = NoReturn THEN "exited" ELSE "running"
              /\ call' = Call("get", key, NoBuf, r # NoReturn)
    /\ UNCHANGED <<buckets, key_size, value_size, cp, not_cp>>

CpNext == cp_set \/ cp_write \/ cp_get

CpSpec == CpInit /\ [][CpNext]_vars

-----------------------------------------------------------------------------
(* Properties.                                                              *)

\* The value bytes get(key) points to; NoBuf where get does not return.
GetValue(b, ks, key) ==
    LET r == __table_get(b, ks, key)
    IN  IF r.kind = "ref" THEN b[r.b][r.pos].value ELSE NoBuf

\* Every node linked in some chain, as (bucket, position).
Entries(b) ==
    UNION {{<<i, p>> : p \in 1 .. Len(b[i])} :
              i \in {j \in Buckets : b[j] # << >>}}

\* The keys of a chain, head first.
ChainKeys(chain) == [p \in 1 .. Len(chain) |-> chain[p].key]

SameKey(ks, j, k) == SubSeq(j, 1, ks) = SubSeq(k, 1, ks)

\* C1 (round trip): a set(k, v) that returns leaves get(k) pointing at
\* value_size bytes equal to v, and leaves the bytes get(j) points at
\* unchanged for every other present key j, colliding or not; so get(k)
\* keeps returning v through any sequence of sets on other keys.
C1_RoundTrip ==
    [][call'.op = "set" =>
         /\ GetValue(buckets', key_size, call'.key)
               = SubSeq(call'.val, 1, value_size)
         /\ \A j \in KeyBufs :
               (Present(buckets, key_size, j)
                   /\ ~SameKey(key_size, j, call'.key))
               => GetValue(buckets', key_size, j)
                     = GetValue(buckets, key_size, j)]_vars

\* A set on a key that collides with an older entry has just linked a new
\* head in front of it, and the older entry holds a different value.
C1_Witness ==
    /\ call.op = "set" /\ ~call.hit /\ status = "running"
    /\ LET chain == buckets[__table_get_index__(key_size, call.key)]
       IN  /\ Len(chain) = 2
           /\ chain[1].value # chain[2].value
           /\ GetValue(buckets, key_size, call.key) = chain[1].value

\* C2 (overwrite): a set(k, v2) on a present key leaves get(k) = v2, exactly
\* one entry for k in the table, the same number of entries, and k's chain
\* with the same keys in the same order; no other chain is touched (so no
\* node was allocated or relinked).
C2_Overwrite ==
    [][(call'.op = "set" /\ Present(buckets, key_size, call'.key)) =>
         LET i == __table_get_index__(key_size, call'.key)
         IN  /\ GetValue(buckets', key_size, call'.key)
                   = SubSeq(call'.val, 1, value_size)
             /\ Cardinality({e \in Entries(buckets') :
                   KeyEq(buckets'[e[1]][e[2]], key_size, call'.key)}) = 1
             /\ [buckets' EXCEPT ![i] = buckets[i]] = buckets
             /\ Len(buckets'[i]) = Len(buckets[i])
             /\ ChainKeys(buckets'[i]) = ChainKeys(buckets[i])]_vars

\* A set has just overwritten the second node of a two-node chain.
C2_Witness ==
    /\ call.op = "set" /\ call.hit /\ status = "running"
    /\ LET chain == buckets[__table_get_index__(key_size, call.key)]
       IN  /\ Len(chain) = 2
           /\ Scan(chain, key_size, call.key) = 2
           /\ chain[2].value = SubSeq(call.val, 1, value_size)
           /\ chain[1].value # chain[2].value

\* C3 (key uniqueness): no two linked nodes, in the same or in different
\* chains, hold equal keys.
C3_KeyUnique ==
    \A e1 \in Entries(buckets), e2 \in Entries(buckets) :
        buckets[e1[1]][e1[2]].key = buckets[e2[1]][e2[2]].key => e1 = e2

\* A set on a present key has returned in a table that holds four entries,
\* two of them in one chain.
C3_Witness ==
    /\ call.op = "set" /\ call.hit
    /\ Cardinality(Entries(buckets)) = 4
    /\ \E i \in Buckets : Len(buckets[i]) = 2

\* C4 (deletion): after delete(k) with k present the call has returned, no
\* chain holds k, and exists(k) is false.
C4_Deletion ==
    (call.op = "delete" /\ call.hit) =>
        /\ status = "running"
        /\ ret = Void
        /\ ~Present(buckets, key_size, call.key)
        /\ __table_exists(buckets, key_size, call.key) = False

\* C5 (head-of-chain deletion): deleting the head of a chain of two or more
\* nodes makes the bucket head the second node, corrupts nothing, and get on
\* a remaining key returns its value.
C5_HeadDeletion ==
    [][\A i \in Buckets :
         (/\ call'.op = "delete"
          /\ i = __table_get_index__(key_size, call'.key)
          /\ Len(buckets[i]) >= 2
          /\ Scan(buckets[i], key_size, call'.key) = 1) =>
            /\ status' = "running"
            /\ freed' = << >>
            /\ buckets'[i] = Tail(buckets[i])
            /\ GetValue(buckets', key_size, buckets[i][2].key)
                  = buckets[i][2].value]_vars

\* C6 (non-head deletion): deleting the node at position p > 1 links its
\* predecessor to its successor: the chain is the old chain without
\* position p, nodes otherwise in the same order with the same values.
C6_NonHeadDeletion ==
    [][\A i \in Buckets :
         (/\ call'.op = "delete"
          /\ i = __table_get_index__(key_size, call'.key)
          /\ Scan(buckets[i], key_size, call'.key) > 1) =>
            LET p == Scan(buckets[i], key_size, call'.key)
            IN  /\ status' = "running"
                /\ freed' = << >>
                /\ buckets'[i] = SubSeq(buckets[i], 1, p - 1)
                                 \o SubSeq(buckets[i], p + 1, Len(buckets[i]))
       ]_vars

\* C7 (delete of an absent key): the call returns and leaves every chain,
\* every value, key_size, value_size and the cursor as they were.
C7_DeleteAbsent ==
    [][(call'.op = "delete" /\ ~Present(buckets, key_size, call'.key)) =>
         /\ status' = "running"
         /\ ret' = Void
         /\ UNCHANGED <<buckets, key_size, value_size, cx, cy, freed>>
      ]_vars

\* A delete of an absent key has returned, its bucket holding another key,
\* with the cursor in mid-pass.
C7_Witness ==
    /\ call.op = "delete" /\ ~call.hit /\ status = "running" /\ ret = Void
    /\ buckets[__table_get_index__(key_size, call.key)] # << >>
    /\ cx = 1
    /\ cy = TABLE_CAPACITY - 1

\* C8 (exists): exists(k) returns true for a present key and false, by a
\* normal return, for an absent one.
C8_Exists ==
    call.op = "exists" =>
        /\ status = "running"
        /\ ret = IF Present(buckets, key_size, call.key) THEN True ELSE False

\* The entries in iteration order: buckets ascending, each chain head first.
RECURSIVE OrderFrom(_, _)
OrderFrom(b, i) ==
    IF i >= TABLE_CAPACITY THEN << >>
    ELSE [p \in 1 .. Len(b[i]) |-> Ref(i, p)] \o OrderFrom(b, i + 1)

IterationOrder(b) == OrderFrom(b, 0)

Range(f) == {f[i] : i \in DOMAIN f}

\* The first next of an unmutated pass that returned the end sentinel.
PassEnded ==
    /\ clean /\ status = "running"
    /\ call.op = "next" /\ ret = Null /\ cy = TABLE_CAPACITY

\* C9 (iteration completeness): when a pass with no mutation reaches End,
\* next has returned exactly N values, one for each of the N entries, none
\* repeated and none omitted.
C9_IterationComplete ==
    PassEnded =>
        /\ Len(visited) = Cardinality(Entries(buckets))
        /\ Range(visited) = Range(IterationOrder(buckets))

\* C10 (iteration order): within a pass with no mutation the values come in
\* bucket order and, in each bucket, from the head along each next link in
\* turn: the n-th value returned is the n-th entry of the iteration order.
C10_IterationOrder ==
    (clean /\ cy < TABLE_CAPACITY) =>
        /\ Len(visited) <= Len(IterationOrder(buckets))
        /\ \A n \in 1 .. Len(visited) :
              visited[n] = IterationOrder(buckets)[n]

\* C11 (no revisit): within a pass with no mutation, no entry's value
\* reference is returned by more than one call of next.
C11_NoRevisit ==
    clean =>
        \A m \in 1 .. Len(visited), n \in 1 .. Len(visited) :
            (visited[m].kind = "ref" /\ visited[m] = visited[n]) => m = n

\* A pass with no mutation has reached End after returning three entries.
C11_Witness ==
    /\ PassEnded
    /\ Len(visited) = 3
    /\ \A n \in 1 .. 3 : visited[n].kind = "ref"

\* C12 (cursor exhaustion): in a pass with no mutation over a table of N
\* entries, every call of next made before End returns, and returns either
\* End or the value of an entry, of which there are never more than N; so
\* End comes within N + 1 calls, and at once on an empty table.
C12_Exhaustion ==
    [][(call'.op = "next" /\ clean /\ cy < TABLE_CAPACITY) =>
         /\ status' = "running"
         /\ \/ ret' = Null
            \/ /\ ret'.kind = "ref"
               /\ Len(visited') <= Cardinality(Entries(buckets))
         /\ (Entries(buckets) = {} /\ visited = << >>) => ret' = Null]_vars

\* The keys a node can store: the first key_size bytes of a key buffer.
StoredKeys == {SubSeq(key, 1, ks) : key \in KeyBufs, ks \in KeySizes}

\* hash(key, key_size) % TABLE_CAPACITY of a stored key, computed once.
BucketOfKey ==
    [key \in StoredKeys |-> U64Mod(__hash(key, Len(key)), TABLE_CAPACITY)]

\* C13 (bucket placement): every linked node is in the chain of the bucket
\* its stored key hashes to, over key_size bytes, modulo the capacity.
C13_BucketPlacement ==
    \A e \in Entries(buckets) :
        /\ Len(buckets[e[1]][e[2]].key) = key_size
        /\ BucketOfKey[buckets[e[1]][e[2]].key] = e[1]

\* Three entries with one-byte keys, two of them colliding in one chain,
\* after a delete that returned.
C13_Witness ==
    /\ key_size = 1
    /\ Cardinality(Entries(buckets)) = 3
    /\ \E i \in Buckets : Len(buckets[i]) = 2
    /\ call.op = "delete" /\ status = "running"

\* C14 (prepend on insert): a set(k, v) with k absent links exactly one new
\* node, holding k and v, as the head of bucket hash(k) % capacity, with the
\* previous head as its successor; the nodes that were there keep their
\* order and values, and no other chain changes.
C14_Prepend ==
    [][(call'.op = "set" /\ ~Present(buckets, key_size, call'.key)) =>
         LET i == BucketOfKey[SubSeq(call'.key, 1, key_size)]
             node == [key   |-> SubSeq(call'.key, 1, key_size),
                      value |-> SubSeq(call'.val, 1, value_size)]
         IN  /\ buckets'[i] = <<node>> \o buckets[i]
             /\ [buckets' EXCEPT ![i] = buckets[i]] = buckets
             /\ status' = "running"]_vars

\* A set of an absent key has linked a new head in front of the older node
\* of the last bucket, while bucket 0 holds a chain of its own.
C14_Witness ==
    /\ call.op = "set" /\ ~call.hit /\ status = "running"
    /\ Len(buckets[TABLE_CAPACITY - 1]) = 2
    /\ buckets[TABLE_CAPACITY - 1][1].key = SubSeq(call.key, 1, key_size)
    /\ buckets[TABLE_CAPACITY - 1][1].value = SubSeq(call.val, 1, value_size)
    /\ buckets[0] # << >>

\* C15 (construction): the table create returns has TABLE_CAPACITY = 100
\* bucket heads, all empty, the key_size and value_size it was given, and
\* the cursor at (0, 0); so a rewind of the fresh table changes nothing in
\* it, and a next on it returns what it returns after a rewind: End, with
\* the cursor moved past the last bucket.
C15_Construction ==
    [][call.op = "create" =>
         /\ DOMAIN buckets = 0 .. 99
         /\ \A i \in DOMAIN buckets : buckets[i] = << >>
         /\ key_size \in KeySizes /\ value_size \in ValueSizes
         /\ cx = 0 /\ cy = 0
         /\ freed = << >> /\ status = "running"
         /\ call'.op = "rewind" =>
               UNCHANGED <<buckets, key_size, value_size, cx, cy, status>>
         /\ call'.op = "next" =>
               /\ ret' = Null /\ status' = "running"
               /\ cx' = 0 /\ cy' = TABLE_CAPACITY
               /\ UNCHANGED <<buckets, key_size, value_size>>]_vars

\* A next on a table that no set has touched returned End and left the
\* cursor past the last bucket.
C15_Witness ==
    /\ call.op = "next" /\ ret = Null /\ clean /\ visited = << >>
    /\ cx = 0 /\ cy = TABLE_CAPACITY
    /\ Entries(buckets) = {}

\* The lowest-indexed bucket whose chain is not empty.
LowestNonEmpty(b) ==
    CHOOSE i \in Buckets :
        b[i] # << >> /\ \A j \in 0 .. (i - 1) : b[j] = << >>

\* C16 (rewind): from any cursor state rewind sets the cursor to (0, 0) and
\* changes nothing else; the next that follows it returns the value of the
\* head of the lowest-indexed non-empty bucket, or End on an empty table.
C16_Rewind ==
    [][/\ call'.op = "rewind" =>
             /\ cx' = 0 /\ cy' = 0
             /\ ret' = Void
             /\ UNCHANGED <<buckets, key_size, value_size, freed, status>>
       /\ (call.op = "rewind" /\ call'.op = "next") =>
             /\ status' = "running"
             /\ ret' = IF Entries(buckets) = {} THEN Null
                       ELSE Ref(LowestNonEmpty(buckets), 1)]_vars

\* The first next of a pass returned the head of the last bucket, the only
\* one that is not empty, and its chain has a second node.
C16_Witness ==
    /\ call.op = "next" /\ clean /\ status = "running"
    /\ visited = <<Ref(TABLE_CAPACITY - 1, 1)>>
    /\ ret = Ref(TABLE_CAPACITY - 1, 1)
    /\ buckets[0] = << >>
    /\ Len(buckets[TABLE_CAPACITY - 1]) = 2

\* C17 (unchecked get of a missing key): get(k) with no entry for k returns
\* nothing; the process ends inside the call, whether k's bucket is empty
\* or holds other keys only, and no chain has been changed.
C17_GetMissing ==
    [][(call'.op = "get" /\ ~Present(buckets, key_size, call'.key)) =>
         /\ ret' = NoReturn
         /\ status' = "exited"
         /\ UNCHANGED <<buckets, key_size, value_size, cx, cy, freed>>]_vars

\* The process has ended in a get of a missing key whose bucket holds
\* another key.
C17_Witness ==
    /\ call.op = "get" /\ status = "exited" /\ ret = NoReturn
    /\ buckets[__table_get_index__(key_size, call.key)] # << >>

\* The 64-bit hashes of two keys, low byte first, as xor-then-multiply with
\* the product cut to 64 bits gives them from the source's two numbers.
HashKnownAnswers ==
    /\ __hash(<<95>>, 1) = <<212, 142, 205, 115, 212, 132, 189, 68>>
    /\ __hash(<<102, 62>>, 2) = <<19, 178, 99, 198, 0, 33, 182, 155>>

\* C18 (hash determinism and range): the bucket index of a key buffer is
\* the 64-bit xor-multiply hash of its first key_size bytes, modulo the
\* capacity: it lies in [0, capacity), buffers equal on those bytes select
\* the same bucket, and at any time a buffer selects the bucket in which a
\* node with the same key was linked earlier.
C18_HashIndex ==
    /\ HashKnownAnswers
    /\ \A k \in KeyBufs :
          /\ __table_get_index__(key_size, k) \in 0 .. (TABLE_CAPACITY - 1)
          /\ __table_get_index__(key_size, k)
                = BucketOfKey[SubSeq(k, 1, key_size)]
          /\ \A j \in KeyBufs :
                SameKey(key_size, j, k) =>
                    __table_get_index__(key_size, j)
                       = __table_get_index__(key_size, k)
          /\ \A e \in Entries(buckets) :
                KeyEq(buckets[e[1]][e[2]], key_size, k) =>
                    __table_get_index__(key_size, k) = e[1]

\* With one-byte keys, a get through a buffer whose second byte would send
\* the whole buffer to the last bucket has found its entry in bucket 0.
C18_Witness ==
    /\ key_size = 1
    /\ call.op = "get" /\ call.hit
    /\ call.key = <<95, 125>>
    /\ IndexOf[2, call.key] = TABLE_CAPACITY - 1
    /\ ret.kind = "ref" /\ ret.b = 0

\* C19 (destroy releases everything exactly once): after destroy, every
\* node that was linked and the block of the header and bucket store have
\* each been passed to free() exactly once, nothing else has, so nothing
\* is left allocated; and destroy read no block after freeing it.
C19_Destroy ==
    call.op = "destroy" =>
        LET ops    == __table_destroy(buckets)
            blocks == Entries(buckets) \cup {TableBlock}
        IN  /\ status = "destroyed"
            /\ freed = FreedBy(ops)
            /\ Len(freed) = Cardinality(blocks)
            /\ \A blk \in blocks :
                  Cardinality({k \in DOMAIN freed : freed[k] = blk}) = 1
            /\ \A m \in {k \in DOMAIN ops : ops[k].op = "free"} :
                  \A n \in (m + 1) .. Len(ops) : ops[n].blk # ops[m].blk

\* A table of four entries in two chains has been destroyed.
C19_Witness ==
    /\ call.op = "destroy" /\ status = "destroyed"
    /\ Len(buckets[0]) = 2
    /\ Len(buckets[TABLE_CAPACITY - 1]) = 2
    /\ Len(freed) = 5

\* C20 (fixed shape): no operation changes key_size, value_size or the
\* number of buckets, however many entries the table holds; a set moves no
\* node to another bucket.
C20_FixedShape ==
    [][/\ key_size' = key_size
       /\ value_size' = value_size
       /\ DOMAIN buckets' = DOMAIN buckets
       /\ Cardinality(DOMAIN buckets') = TABLE_CAPACITY
       /\ call'.op = "set" =>
             \A i \in {j \in Buckets : buckets[j] # << >>} :
                 Range(ChainKeys(buckets[i]))
                     \subseteq Range(ChainKeys(buckets'[i]))]_vars

\* A set has linked the fourth entry, a second node in its chain, and the
\* store still has its TABLE_CAPACITY buckets.
C20_Witness ==
    /\ call.op = "set" /\ ~call.hit
    /\ Cardinality(Entries(buckets)) = 4
    /\ Len(buckets[__table_get_index__(key_size, call.key)]) = 2
    /\ DOMAIN buckets = Buckets

\* The item a chain of the table holds for a key, as the KVPair httryget
\* returns; Null where no chain reaches such an item.
HtFind(h, key) == __httryget(h, key).ret

\* C21 (string-keyed table, set then look up): after htset(key) returns,
\* httryget(key) returns the pair of an item whose key is key and whose
\* value block is the one htset returned, and a second htset(key) returns
\* that value block and creates no item; also when the key's bucket already
\* holds an item with another key.
C21_HtSetGet ==
    [][(call'.op = "htset" /\ status' = "running") =>
         LET key == call'.key
             got == HtFind(ht', key)
             again == __htset(ht', key)
         IN  /\ got.kind = "pair"
             /\ got.pos = ret'.pos
             /\ ht'.items[HtIndex(ht', key)]
                   [HtScan(ht'.items[HtIndex(ht', key)], key)].key = key
             /\ again.ret = ret'
             /\ again.ht = ht']_vars

\* The keys some htset has created an item for.
HtKeysSet(h) ==
    UNION {{h.items[i][p].key : p \in 1 .. Len(h.items[i])} :
              i \in DOMAIN h.items} \cup
    {u.item.key : u \in h.unlinked}

\* C22 (two-tier lookup): for a key no htset was called with, httryget
\* returns NULL by a normal return and htget ends the process; with a NULL
\* key htset, httryget and htget all end the process; none of these calls
\* changes the table.
C22_HtLookup ==
    [][call'.op \in {"htset", "httryget", "htget"} =>
         /\ (call'.key # NullKey /\ call'.key \notin HtKeysSet(ht)
                /\ call'.op = "httryget") =>
               (ret' = Null /\ status' = "running" /\ ht' = ht)
         /\ (call'.key # NullKey /\ call'.key \notin HtKeysSet(ht)
                /\ call'.op = "htget") =>
               (ret' = NoReturn /\ status' = "exited" /\ ht' = ht)
         /\ call'.key = NullKey =>
               (ret' = NoReturn /\ status' = "exited" /\ ht' = ht)]_vars

\* httryget has returned NULL for a key that was never set, in a table
\* holding another key in that key's bucket.
C22_Witness ==
    /\ call.op = "httryget" /\ ret = Null /\ status = "running"
    /\ call.key \notin HtKeysSet(ht)
    /\ ht.items[HtIndex(ht, call.key)] # << >>

\* C23 (list iteration): in a pass started by llreset with no llappend
\* since, llnext has returned the data of the first appended nodes, in
\* append order, each once; llend is true exactly when all llcount of them
\* have been returned; llnext returns NULL only then, and llcount is the
\* number of nodes appended.
C23_ListIteration ==
    clean =>
        /\ __llcount(ll) = Len(ll.next)
        /\ Len(visited) <= __llcount(ll)
        /\ \A k \in 1 .. Len(visited) : visited[k] = LlData(k)
        /\ __llend(ll) <=> Len(visited) = __llcount(ll)
        /\ call.op = "llnext" =>
              IF ret = Null THEN Len(visited) = __llcount(ll)
              ELSE ret = visited[Len(visited)]
        /\ call.op = "llend" =>
              (ret = True <=> Len(visited) = __llcount(ll))
        /\ call.op = "llcount" => ret.pos = Len(ll.next)

\* A pass over a list of three nodes has returned all three and then NULL.
C23_Witness ==
    /\ clean /\ call.op = "llnext" /\ ret = Null
    /\ __llcount(ll) = 3
    /\ Len(visited) = 3

\* C24 (array append): every append adds exactly one to the length and
\* keeps every item stored before it, also when the block is reallocated;
\* the capacity is 10 at first and doubles exactly in an append made with
\* length = cap; length <= cap always.
C24_ArrayAppend ==
    [][/\ ar.length <= ar.cap /\ ar'.length <= ar'.cap
       /\ Len(ar'.items) = ar'.cap
       /\ call.op = "array_create" => ar.cap = 10
       /\ call'.op = "array_append" =>
             /\ ar'.length = ar.length + 1
             /\ \A i \in 1 .. ar.length : ar'.items[i] = ar.items[i]
             /\ ar'.cap = IF ar.length = ar.cap THEN 2 * ar.cap ELSE ar.cap
       /\ call'.op # "array_append" => ar'.cap = ar.cap]_vars

\* An append has just doubled the capacity of a full array whose first and
\* last items differ.
C24_Witness ==
    /\ call.op = "array_append" /\ call.hit
    /\ ar.cap = 2 * ARRAY_INITIAL_CAPACITY
    /\ ar.length = ARRAY_INITIAL_CAPACITY + 1
    /\ ar.items[1] = 1
    /\ ar.items[ARRAY_INITIAL_CAPACITY] = 2

\* C25 (array pop and bounds): a pop of a non-empty array takes one from
\* the length and returns the item that was last (after append and store of
\* x, the x stored), and array_at of the old last index then ends the
\* process; a pop of an empty array and an array_at of an index >= length
\* end the process and leave the length as it was.
C25_ArrayPop ==
    [][/\ (call'.op = "array_pop" /\ ar.length > 0) =>
             /\ status' = "running"
             /\ ar'.length = ar.length - 1
             /\ ret' = ItemPtr(ar.length - 1)
             /\ ar'.items[ret'.pos + 1] = ar.items[ar.length]
             /\ call.op = "store" => ar'.items[ret'.pos + 1] = call.val[1]
             /\ __array_at(ar', ar.length - 1).status = "exited"
       /\ (call'.op = "array_pop" /\ ar.length = 0) =>
             (status' = "exited" /\ ret' = NoReturn /\ ar' = ar)
       /\ (call'.op = "array_at" /\ call'.key[1] >= ar.length) =>
             (status' = "exited" /\ ret' = NoReturn /\ ar' = ar)
       /\ (call'.op = "array_at" /\ call'.key[1] < ar.length) =>
             (status' = "running" /\ ret' = ItemPtr(call'.key[1]) /\ ar' = ar)
      ]_vars

\* The item appended to a full array of ten has been popped again: it is
\* still in the reallocated block, and differs from the new last item.
C25_Witness ==
    /\ call.op = "array_pop" /\ status = "running"
    /\ ar.cap = 2 * ARRAY_INITIAL_CAPACITY
    /\ ar.length = ARRAY_INITIAL_CAPACITY
    /\ ret = ItemPtr(ARRAY_INITIAL_CAPACITY)
    /\ ar.items[ARRAY_INITIAL_CAPACITY + 1] = 2
    /\ ar.items[ARRAY_INITIAL_CAPACITY] = 1

\* The items of an array of array.h, index 0 first.
ArrItems(a) == [k \in 1 .. a.count |-> a.data[k]]

\* C26 (arrfilter): the array returned holds exactly the items of the input
\* the callback accepts, as copies, in their original order, its count is
\* their number, and the input's count and items are as before.
C26_Filter ==
    [][call'.op = "arrfilter" =>
         LET accepted == SelectSeq(ArrItems(fa.src),
                                   LAMBDA x : cb(call'.key[1], x))
         IN  /\ fa'.dst.count = Len(accepted)
             /\ ArrItems(fa'.dst) = accepted
             /\ fa'.dst.count <= fa'.dst.size
             /\ fa'.dst.type = fa.src.type
             /\ fa'.src = fa.src]_vars

\* A filter of three items has kept the first and the last and dropped the
\* one between them.
C26_Witness ==
    /\ call.op = "arrfilter" /\ call.key = <<"odd">>
    /\ ArrItems(fa.src) = <<3, 2, 1>>
    /\ ArrItems(fa.dst) = <<3, 1>>

\* The indices at which b occurs in a.
Occurrences(a, b) ==
    {i \in 0 .. Len(a) - Len(b) : SubSeq(a, i + 1, i + Len(b)) = b}

\* C27 (strfind): for a non-empty b, strfind(a, b) returns the index of the
\* first occurrence of b in a, and returns a.count exactly when b does not
\* occur in a; this includes an occurrence in the last b.count characters
\* of a, and a = b.
C27_Find ==
    (call.op = "strfind" /\ Len(strs.b) > 0) =>
        LET occ == Occurrences(strs.a, strs.b)
        IN  /\ ret.kind = "index"
            /\ (occ = {}) <=> (ret.pos = Len(strs.a))
            /\ occ # {} =>
                  /\ ret.pos \in occ
                  /\ \A i \in occ : ret.pos <= i

\* The digits of a numeral: the view without its sign and leading zeros.
RECURSIVE StripZeros(_)
StripZeros(d) ==
    IF Len(d) > 1 /\ d[1] = 48 THEN StripZeros(Tail(d)) ELSE d
Digits(v) == StripZeros(IF v[1] = 45 THEN Tail(v) ELSE v)

\* d, of the same length as e, is at most e digit by digit.
RECURSIVE AtMost(_, _)
AtMost(d, e) ==
    \/ d = << >>
    \/ d[1] < e[1]
    \/ d[1] = e[1] /\ AtMost(Tail(d), Tail(e))

\* The numeral denotes a value of int: at most 2147483647, or 2147483648
\* when negative.
Representable(v) ==
    LET d == Digits(v)
    IN  \/ Len(d) < 10
        \/ /\ Len(d) = 10
           /\ AtMost(d, <<50, 49, 52, 55, 52, 56, 51, 54, 52,
                          IF v[1] = 45 THEN 56 ELSE 55>>)

\* The value of a representable numeral, summed from the sign outwards so
\* that no partial sum leaves the range.
RECURSIVE Value(_, _, _)
Value(d, sign, acc) ==
    IF d = << >> THEN acc
    ELSE Value(Tail(d), sign, acc * 10 + sign * (d[1] - 48))

\* C28 (sv_conv_int): for every view sv_is_int accepts, sv_conv_int returns
\* the integer the view denotes, whatever its length.
C28_ConvInt ==
    (call.op = "sv_conv_int" /\ sv_is_int_(view)) =>
        /\ ret.kind = "int"
        /\ Representable(view)
        /\ ret.pos = Value(Digits(view), IF view[1] = 45 THEN 0 - 1 ELSE 1, 0)

\* C29 (reads of next stay in the store): every index at which next reads
\* the bucket store is below the capacity, and a next made after End has
\* been returned, with no rewind between, returns End again and leaves the
\* cursor's bucket index at most the capacity.
C29_NextReadsInStore ==
    [][call'.op = "next" =>
         /\ NextReads(cy, cy') \subseteq Buckets
         /\ (call.op = "next" /\ ret = Null) =>
               (ret' = Null /\ cy' <= TABLE_CAPACITY)]_vars

\* C30 (fresh heads of the table without delete and cursor): the bucket
\* store of a created table holds an empty head wherever no set has
\* installed a node, so no set, get or destroy follows a pointer that no
\* set installed: none is killed, none reads or writes outside the nodes.
C30_FreshHeadsEmpty ==
    /\ \A i \in Buckets : pt.heads[i].rest # "junk"
    /\ ~pt.wild
    /\ status # "killed"

\* The nodes of a key buffer's bucket whose stored key is the buffer's
\* first ks bytes, as (bucket, position).
NodesOfKey(b, ks, key) ==
    LET i == __table_get_index__(ks, key)
    IN  {<<i, p>> : p \in {q \in 1 .. Len(b[i]) :
                              b[i][q].key = SubSeq(key, 1, ks)}}

\* C31 (keys are their first key_size bytes): a set, get or delete through
\* a key buffer acts as it would through any buffer with the same first
\* key_size bytes: the same bucket, the same entry (one node, holding the
\* value last set through either); a buffer that differs within the first
\* key_size bytes designates another entry, which a set leaves as it was.
C31_KeyPrefix ==
    [][/\ call'.op = "set" =>
             \A j \in KeyBufs :
                IF SameKey(key_size, j, call'.key)
                THEN /\ __table_get_index__(key_size, j)
                           = __table_get_index__(key_size, call'.key)
                     /\ Cardinality(NodesOfKey(buckets', key_size, j)) = 1
                     /\ GetValue(buckets', key_size, j)
                           = SubSeq(call'.val, 1, value_size)
                ELSE /\ NodesOfKey(buckets', key_size, j)
                           \cap NodesOfKey(buckets', key_size, call'.key) = {}
                     /\ GetValue(buckets', key_size, j)
                           = GetValue(buckets, key_size, j)
       /\ call'.op = "get" =>
             \A j \in KeyBufs :
                SameKey(key_size, j, call'.key) =>
                   ret' = __table_get(buckets, key_size, j)
       /\ call'.op = "delete" =>
             \A j \in KeyBufs :
                SameKey(key_size, j, call'.key) =>
                   \E outcome \in DeleteOutcomes :
                      LET r == __table_delete(buckets, freed, key_size, j,
                                              outcome)
                      IN  /\ buckets' = r.buckets /\ freed' = r.freed
                          /\ status' = r.status /\ ret' = r.ret]_vars

\* With key_size = 1, a set through the buffer <<95, 125>> has overwritten
\* the only entry, which the buffer <<95, 116>> designates as well.
C31_Witness ==
    /\ key_size = 1
    /\ call.op = "set" /\ call.hit /\ call.key = <<95, 125>>
    /\ Cardinality(Entries(buckets)) = 1
    /\ GetValue(buckets, key_size, <<95, 116>>) = call.val

\* C32 (set copies its arguments): a write by the caller to the key buffer
\* or the value buffer it passed to set changes no stored entry: get with
\* the bytes of any key set before finds the same node, holding the same
\* key bytes and the value bytes last set for it.
C32_SetCopies ==
    [][call'.op = "write" =>
         LET before == Pointees(buckets, key_size, value_size, cp)
             after  == Pointees(buckets', key_size, value_size, cp')
         IN  /\ after = before
             /\ \A key \in KeyBufs :
                   /\ __table_get(after, key_size, key)
                         = __table_get(before, key_size, key)
                   /\ GetValue(after, key_size, key)
                         = GetValue(before, key_size, key)]_vars

\* After set(k, v) the caller has overwritten both buffers, and a get has
\* found under the first key_size bytes of k the bytes of v.
C32_Witness ==
    /\ call.op = "get" /\ call.hit
    /\ ~SameKey(key_size, call.key, cp.key)
    /\ Cardinality(Entries(buckets)) = 1
    /\ GetValue(Pointees(buckets, key_size, value_size, cp),
                key_size, call.key) # SubSeq(cp.value, 1, value_size)

\* C33 (frame conditions): a get of a present key, a rewind and a next
\* change no chain, key or value; a set, a get of a present key and a
\* delete of an absent key leave the cursor (cy, cx) where it was.
C33_Frames ==
    [][/\ (\/ call'.op \in {"rewind", "next"}
           \/ call'.op = "get" /\ call'.hit) =>
             /\ buckets' = buckets
             /\ key_size' = key_size /\ value_size' = value_size
       /\ (\/ call'.op = "set"
           \/ call'.op = "get" /\ call'.hit
           \/ call'.op = "delete" /\ ~call'.hit) =>
             /\ cx' = cx /\ cy' = cy]_vars

\* A set has linked a new node while the cursor stood at the second node of
\* the last bucket.
C33_Witness ==
    /\ call.op = "set" /\ ~call.hit
    /\ cy = TABLE_CAPACITY - 1 /\ cx = 1
    /\ Len(buckets[cy]) = 2

\* The values a pass from the cursor (y, x) returns before End, when the
\* words it reads are those of the bucket store; n bounds the calls.
RECURSIVE PassFrom(_, _, _, _)
PassFrom(b, x, y, n) ==
    LET r == __table_next(b, x, y, "null", "null", "wild")
    IN  IF n = 0 \/ r.ret.kind # "ref" THEN << >>
        ELSE <<r.ret>> \o PassFrom(b, r.cx, r.cy, n - 1)

\* The pass of a fresh cursor.
FreshPass(b) == PassFrom(b, 0, 0, Cardinality(Entries(b)))

IsPrefix(s, t) == Len(s) <= Len(t) /\ s = SubSeq(t, 1, Len(s))

\* C34 (passes are repeatable): with no set or delete since it began, every
\* pass, the first, a repeated one or one restarted by rewind after an
\* abandoned one, returns the value references a pass from a fresh cursor
\* returns, in the same order, and all of them by the time it returns End.
C34_Repeatable ==
    (clean /\ status = "running" /\ buckets # NoObject) =>
        /\ IsPrefix(visited, FreshPass(buckets))
        /\ PassEnded => visited = FreshPass(buckets)

\* The positions of a heap log at which a block is freed.
FreesOf(log, blk) == {i \in 1 .. Len(log) : log[i] = Free(blk)}

\* Nothing is done to a block after the position that frees it.
NoUseAfterFree(log) ==
    \A i \in 1 .. Len(log) :
        log[i].op = "free" =>
            \A j \in (i + 1) .. Len(log) : log[j].blk # log[i].blk

\* C35 (llclean): llclean frees every node, the data of every node and the
\* header, each exactly once, and neither reads nor writes a block after
\* it has freed it.
C35_ListClean ==
    call.op = "llclean" =>
        /\ \A n \in 1 .. Len(ll.next) :
              /\ Cardinality(FreesOf(freed, LlNode(n))) = 1
              /\ Cardinality(FreesOf(freed, LlDataBlock(n))) = 1
        /\ Cardinality(FreesOf(freed, LlHeader)) = 1
        /\ NoUseAfterFree(freed)
        /\ status # "killed"

\* The blocks htinit and the htset calls have allocated.
HtAllocated(h) ==
    {HtHeader, HtArray}
        \cup {HtBlock(kind, id) : kind \in {"item", "key", "value"},
                                  id \in 1 .. h.count}

\* C36 (htclean): htclean frees the header, the bucket array and every item
\* htset created, with its key and its value, each exactly once, so that
\* nothing stays allocated, and reads no block after it has freed it.
C36_HtClean ==
    call.op = "htclean" =>
        /\ \A blk \in HtAllocated(ht) : Cardinality(FreesOf(freed, blk)) = 1
        /\ NoUseAfterFree(freed)
        /\ status # "killed"

====
